---- MODULE Spec2Model ----
(***************************************************************************)
(* A model of the Agentia world engine: the world state container          *)
(* (src/world.py), its agent locks with deferred effects, and the bounded  *)
(* tool loop that resolves "interact" actions (src/world_engine.py).       *)
(*                                                                         *)
(* Python dicts are functions whose DOMAIN is the set of keys; Python      *)
(* lists are sequences; a tool call's JSON arguments are a record whose    *)
(* fields are the keys the collaborator sent.                              *)
(***************************************************************************)
EXTENDS Integers, Sequences, FiniteSets, TLC

VARIABLES
    locations,        \* World.locations: id -> [connected_to, objects, agents_present]
    objects,          \* World.objects: id -> WorldObject (without its id)
    agent_locations,  \* World.agent_locations: agent -> location id
    agent_locks,      \* World.agent_locks: agent -> lock record
    sim_time,         \* World.sim_time, in minutes after SIMULATION_START_TIME
    pending_events,   \* World.pending_events: agent -> queue of messages
    rs,               \* the running resolve_interaction call (its locals and position)
    pa,               \* the process_action call that waits for the resolver
    tk,               \* the tick loop: its phase and its locals
    ret               \* the operation last called and what it returned

vars == <<locations, objects, agent_locations, agent_locks, sim_time,
          pending_events, rs, pa, tk, ret>>

----------------------------------------------------------------------------
(* Identifiers the scenarios and the collaborator draw from.               *)

Locs == {"room_a", "room_b"}
GhostLoc == "room_c"          \* an id that names no location
Agents == {"Ann", "Bob"}
ObjIds == {"lamp", "cup"}
Ids == Locs \cup {GhostLoc} \cup Agents \cup ObjIds
States == {"normal", "on"}
NoneVal == "None"             \* Python's None where a string is expected

(* Bounds of the exploration.                                              *)
MaxList == 2                  \* longest objects / agents_present list explored

----------------------------------------------------------------------------
(* Python helpers.                                                         *)

\* list.remove(x): drops the first occurrence of x (callers test membership first)
RECURSIVE RemoveFirst(_, _)
RemoveFirst(s, x) ==
    IF s = <<>> THEN <<>>
    ELSE IF Head(s) = x THEN Tail(s)
    ELSE <<Head(s)>> \o RemoveFirst(Tail(s), x)

InList(s, x) == \E i \in 1..Len(s) : s[i] = x

Count(s, x) == Cardinality({i \in 1..Len(s) : s[i] = x})

\* the empty dict
EmptyDict == [x \in {} |-> NoneVal]

\* dict without key k
DropKey(f, k) == [x \in (DOMAIN f) \ {k} |-> f[x]]

\* dict with f[k] = v
SetKey(f, k, v) == [x \in (DOMAIN f) \cup {k} |-> IF x = k THEN v ELSE f[x]]

\* dict.get(k) with default d
Get(f, k, d) == IF k \in DOMAIN f THEN f[k] ELSE d

----------------------------------------------------------------------------
(* The world as a value: the three maps the store operations read and      *)
(* write.  Each operation returns the new world and its return value.      *)

World == [locations |-> locations, objects |-> objects,
          agent_locations |-> agent_locations]

\* nx.Graph built by _load_from_config: add_edge(loc.id, target_id) for every
\* target in connected_to; the graph is undirected and target_id need not be
\* a location.
has_edge(w, u, v) ==
    \/ u \in DOMAIN w.locations /\ v \in w.locations[u].connected_to
    \/ v \in DOMAIN w.locations /\ u \in w.locations[v].connected_to

get_connected_locations(w, l) ==
    IF l \in DOMAIN w.locations THEN w.locations[l].connected_to ELSE {}

place_agent(w, a, l) ==
    IF l \in DOMAIN w.locations
    THEN [ok |-> TRUE,
          w |-> [w EXCEPT
                   !.agent_locations = SetKey(@, a, l),
                   !.locations[l].agents_present =
                       IF InList(@, a) THEN @ ELSE Append(@, a)]]
    ELSE [ok |-> FALSE, w |-> w]

move_agent(w, a, to) ==
    IF a \notin DOMAIN w.agent_locations THEN [ok |-> FALSE, w |-> w]
    ELSE IF ~has_edge(w, w.agent_locations[a], to) THEN [ok |-> FALSE, w |-> w]
    ELSE LET from == w.agent_locations[a]
             w1 == IF from \in DOMAIN w.locations
                      /\ InList(w.locations[from].agents_present, a)
                   THEN [w EXCEPT !.locations[from].agents_present =
                                      RemoveFirst(@, a)]
                   ELSE w
         IN IF to \in DOMAIN w.locations
            THEN [ok |-> TRUE,
                  w |-> [w1 EXCEPT
                           !.locations[to].agents_present = Append(@, a),
                           !.agent_locations[a] = to]]
            ELSE [ok |-> FALSE, w |-> w1]

\* WorldObject(...): the fields of an object; its id is its key in objects
WorldObject(name, location_id, state, description, mechanics, internal_state) ==
    [name |-> name, location_id |-> location_id, state |-> state,
     description |-> description, mechanics |-> mechanics,
     internal_state |-> internal_state]

create_object_overwriting(w, object_id, name, location_id, state, description, mechanics, internal_state) ==
    \* a create_object without the test for an existing id
    LET w1 == [w EXCEPT !.objects =
                   SetKey(@, object_id,
                          WorldObject(name, location_id, state, description,
                                      mechanics, internal_state))]
    IN [ok |-> TRUE,
        w |-> IF location_id \in DOMAIN w.locations
              THEN [w1 EXCEPT !.locations[location_id].objects =
                                  Append(@, object_id)]
              ELSE w1]

\* internal_state = None and internal_state = {} give the same object
\* ("internal_state or {}"): both are the empty dict here.
create_object(w, object_id, name, location_id, state, description, mechanics, internal_state) ==
    IF object_id \in DOMAIN w.objects THEN [ok |-> FALSE, w |-> w]
    ELSE LET w1 == [w EXCEPT !.objects =
                        SetKey(@, object_id,
                               WorldObject(name, location_id, state, description,
                                           mechanics, internal_state))]
         IN [ok |-> TRUE,
             w |-> IF location_id \in DOMAIN w.locations
                   THEN [w1 EXCEPT !.locations[location_id].objects =
                                       Append(@, object_id)]
                   ELSE w1]

destroy_object(w, object_id) ==
    IF object_id \notin DOMAIN w.objects THEN [ok |-> FALSE, w |-> w]
    ELSE LET loc == w.objects[object_id].location_id
             w1 == [w EXCEPT !.objects = DropKey(@, object_id)]
         IN [ok |-> TRUE,
             w |-> IF loc \in DOMAIN w.locations
                      /\ InList(w.locations[loc].objects, object_id)
                   THEN [w1 EXCEPT !.locations[loc].objects =
                                       RemoveFirst(@, object_id)]
                   ELSE w1]

transfer_object(w, object_id, from_id, to_id) ==
    IF object_id \notin DOMAIN w.objects THEN [ok |-> FALSE, w |-> w]
    ELSE LET w1 == IF from_id \in DOMAIN w.locations
                      /\ InList(w.locations[from_id].objects, object_id)
                   THEN [w EXCEPT !.locations[from_id].objects =
                                      RemoveFirst(@, object_id)]
                   ELSE w
             w2 == [w1 EXCEPT !.objects[object_id].location_id = to_id]
         IN [ok |-> TRUE,
             w |-> IF to_id \in DOMAIN w.locations
                   THEN [w2 EXCEPT !.locations[to_id].objects =
                                       Append(@, object_id)]
                   ELSE w2]

\* dict.update(patch): the keys of patch take patch's values
Merge(d, patch) ==
    [k \in DOMAIN d \cup DOMAIN patch |->
        IF k \in DOMAIN patch THEN patch[k] ELSE d[k]]

update_object_replacing(w, object_id, state, description, internal_state) ==
    \* an update_object that assigns internal_state instead of merging it
    IF object_id \notin DOMAIN w.objects THEN [ok |-> FALSE, w |-> w]
    ELSE [ok |-> TRUE,
          w |-> [w EXCEPT !.objects[object_id] =
                   [@ EXCEPT
                      !.state = IF state # NoneVal THEN state ELSE @,
                      !.description =
                          IF description # NoneVal THEN description ELSE @,
                      !.internal_state =
                          IF internal_state # EmptyDict THEN internal_state
                          ELSE @]]]

\* state / description = NoneVal: the argument was not given (or is None).
\* internal_state None and {} both change nothing: both are the empty dict.
update_object(w, object_id, state, description, internal_state) ==
    IF object_id \notin DOMAIN w.objects THEN [ok |-> FALSE, w |-> w]
    ELSE [ok |-> TRUE,
          w |-> [w EXCEPT !.objects[object_id] =
                   [@ EXCEPT
                      !.state = IF state # NoneVal THEN state ELSE @,
                      !.description =
                          IF description # NoneVal THEN description ELSE @,
                      !.internal_state = Merge(@, internal_state)]]]

\* objects whose location_id is the agent's name
get_agent_inventory(w, a) ==
    {o \in DOMAIN w.objects : w.objects[o].location_id = a}

\* get_agent_location: agent_locations.get(agent_name)
get_agent_location(w, a) == Get(w.agent_locations, a, NoneVal)

----------------------------------------------------------------------------
(* Event queues and the agent-facing context (src/world.py 235-319).  The  *)
(* queues are passed and returned as the dict pe.                          *)

\* "for agent_name in agents: if agent_name != exclude_agent: queue.append"
RECURSIVE QueueFor(_, _, _, _)
QueueFor(pe, agents, message, exclude_agent) ==
    IF agents = <<>> THEN pe
    ELSE LET a == Head(agents)
             pe1 == IF a # exclude_agent
                    THEN SetKey(pe, a, Append(Get(pe, a, <<>>), message))
                    ELSE pe
         IN QueueFor(pe1, Tail(agents), message, exclude_agent)

broadcast_to_location_all(w, pe, location_id, message, exclude_agent) ==
    \* a broadcast that does not leave out the excluded agent
    IF location_id \notin DOMAIN w.locations THEN pe
    ELSE QueueFor(pe, w.locations[location_id].agents_present, message, NoneVal)

\* broadcast_to_location: the queues after the call
broadcast_to_location(w, pe, location_id, message, exclude_agent) ==
    IF location_id \notin DOMAIN w.locations THEN pe
    ELSE QueueFor(pe, w.locations[location_id].agents_present, message,
                  exclude_agent)

get_pending_events_peeking(pe, a) ==
    \* a get_pending_events that leaves the queue in place
    [events |-> Get(pe, a, <<>>), pe |-> pe]

\* get_pending_events: pending_events.pop(agent_name, [])
get_pending_events(pe, a) ==
    [events |-> Get(pe, a, <<>>), pe |-> DropKey(pe, a)]

\* what an agent is shown of an object: name, id, state and description
VisibleInfo(w, o) ==
    [name |-> w.objects[o].name, id |-> o, state |-> w.objects[o].state,
     description |-> w.objects[o].description]

DefaultContext(now) ==
    [time |-> now, location |-> "Unknown", people |-> <<>>, objects |-> <<>>,
     connections |-> {}, events |-> "None", inventory |-> {}]

get_agent_context_data_leaking(w, pe, now, a, location_id) ==
    \* a context that echoes the first listed object's mechanics as the
    \* location text
    IF location_id \in DOMAIN w.locations
       /\ w.locations[location_id].objects # <<>>
       /\ Head(w.locations[location_id].objects) \in DOMAIN w.objects
    THEN [data |-> [DefaultContext(now) EXCEPT
                      !.location =
                          w.objects[Head(w.locations[location_id].objects)].mechanics],
          pe |-> pe]
    ELSE [data |-> DefaultContext(now), pe |-> pe]

\* get_agent_context_data: [data, pe], the snapshot and the queues after
\* the call.  Without a location the defaults are returned before the
\* event queue is read.
get_agent_context_data(w, pe, now, a, location_id) ==
    IF location_id \notin DOMAIN w.locations
    THEN [data |-> DefaultContext(now), pe |-> pe]
    ELSE LET loc == w.locations[location_id]
             Other(p) == p # a
             Exists(o) == o \in DOMAIN w.objects
             listed == SelectSeq(loc.objects, Exists)
             ev == get_pending_events(pe, a)
         IN [data |->
                [time |-> now,
                 location |-> location_id,
                 people |-> SelectSeq(loc.agents_present, Other),
                 objects |-> [i \in 1..Len(listed) |-> VisibleInfo(w, listed[i])],
                 connections |-> loc.connected_to,
                 events |-> "None",
                 pending_events |-> ev.events,
                 inventory |-> get_agent_inventory(w, a)],
             pe |-> ev.pe]

----------------------------------------------------------------------------
(* Scenarios (World.__init__ and _load_from_config, then setup_world's     *)
(* place_agent calls).                                                     *)

\* connected_to lists of the two rooms: mutual, one-sided, dangling, none
Configs ==
    { [room_a |-> {"room_b"}, room_b |-> {"room_a"}],
      [room_a |-> {"room_b"}, room_b |-> {}],
      [room_a |-> {GhostLoc}, room_b |-> {"room_a"}],
      [room_a |-> {},         room_b |-> {}] }

\* room_a's entry of the scenario lists the lamp among its objects
LoadedLocations(cfg) ==
    [l \in Locs |->
        [connected_to |-> cfg[l],
         objects |-> IF l = "room_a" THEN <<"lamp">> ELSE <<>>,
         agents_present |-> <<>>]]

LoadedObjects ==
    [o \in {"lamp"} |->
        WorldObject("Lamp", "room_a", "normal", "A lamp.", "Can be toggled.",
                    [power |-> "off"])]

Idle == [pc |-> "idle"]

TestConfig == [room_a |-> {"room_b"}, room_b |-> {"room_a"}]

InitWorld(cfgs) ==
    /\ \E cfg \in cfgs : locations = LoadedLocations(cfg)
    /\ objects = LoadedObjects
    /\ agent_locations = EmptyDict
    /\ agent_locks = EmptyDict
    /\ sim_time = 0
    /\ pending_events = EmptyDict
    /\ rs = Idle
    /\ pa = Idle
    /\ tk = Idle
    /\ ret = [op |-> "init"]

InitMove == InitWorld(Configs)

InitStore == InitWorld({TestConfig})

----------------------------------------------------------------------------
(* Store operations called on the World directly.                          *)

SetWorld(w) ==
    /\ locations' = w.locations
    /\ objects' = w.objects
    /\ agent_locations' = w.agent_locations

ListsBounded(w) ==
    \A l \in DOMAIN w.locations :
        /\ Len(w.locations[l].objects) <= MaxList
        /\ Len(w.locations[l].agents_present) <= MaxList

PlaceAgent(a, l) ==
    LET r == place_agent(World, a, l) IN
    /\ rs.pc = "idle"
    /\ ListsBounded(r.w)
    /\ SetWorld(r.w)
    /\ ret' = [op |-> "place_agent", agent |-> a, to |-> l, ok |-> r.ok]
    /\ UNCHANGED <<agent_locks, sim_time, rs, pending_events, pa, tk>>

MoveAgent(a, to) ==
    LET r == move_agent(World, a, to) IN
    /\ rs.pc = "idle"
    /\ ListsBounded(r.w)
    /\ SetWorld(r.w)
    /\ ret' = [op |-> "move_agent", agent |-> a, to |-> to, ok |-> r.ok]
    /\ UNCHANGED <<agent_locks, sim_time, rs, pending_events, pa, tk>>

CreateObject(o, l, st) ==
    LET r == create_object(World, o, o, l, st, "", "", EmptyDict) IN
    /\ rs.pc = "idle"
    /\ ListsBounded(r.w)
    /\ SetWorld(r.w)
    /\ ret' = [op |-> "create_object", object_id |-> o, ok |-> r.ok]
    /\ UNCHANGED <<agent_locks, sim_time, rs, pending_events, pa, tk>>

DestroyObject(o) ==
    LET r == destroy_object(World, o) IN
    /\ rs.pc = "idle"
    /\ SetWorld(r.w)
    /\ ret' = [op |-> "destroy_object", object_id |-> o, ok |-> r.ok]
    /\ UNCHANGED <<agent_locks, sim_time, rs, pending_events, pa, tk>>

TransferObject(o, from, to) ==
    LET r == transfer_object(World, o, from, to) IN
    /\ rs.pc = "idle"
    /\ ListsBounded(r.w)
    /\ SetWorld(r.w)
    /\ ret' = [op |-> "transfer_object", object_id |-> o, ok |-> r.ok]
    /\ UNCHANGED <<agent_locks, sim_time, rs, pending_events, pa, tk>>

UpdateObject(o, st, description, internal_state) ==
    LET r == update_object(World, o, st, description, internal_state) IN
    /\ rs.pc = "idle"
    /\ SetWorld(r.w)
    /\ ret' = [op |-> "update_object", object_id |-> o, ok |-> r.ok,
               state |-> st, description |-> description,
               internal_state |-> internal_state]
    /\ UNCHANGED <<agent_locks, sim_time, rs, pending_events, pa, tk>>

\* Arguments the direct calls are explored with
PlaceIds == Locs \cup {GhostLoc}
OwnerIds == Locs \cup {"Ann", "lamp"}
FromIds == Locs \cup {"Ann"}

NextMove ==
    \/ \E a \in Agents, l \in PlaceIds : PlaceAgent(a, l)
    \/ \E a \in Agents, l \in PlaceIds : MoveAgent(a, l)

SpecMove == InitMove /\ [][NextMove]_vars

NextStore ==
    \/ \E o \in ObjIds, l \in OwnerIds : CreateObject(o, l, "normal")
    \/ \E o \in ObjIds : DestroyObject(o)
    \/ \E o \in ObjIds, from \in FromIds, to \in OwnerIds : TransferObject(o, from, to)
    \/ \E o \in ObjIds, st \in {"on", NoneVal} :
          UpdateObject(o, st, NoneVal, EmptyDict)

SpecStore == InitStore /\ [][NextStore]_vars

\* update_object with every combination of its optional arguments
Patches ==
    { EmptyDict, [power |-> "on"], [locked |-> "yes"],
      [power |-> "off", locked |-> "no"] }

NextUpdate ==
    \/ \E o \in ObjIds, st \in {"on", NoneVal}, d \in {"Broken.", NoneVal},
          patch \in Patches : UpdateObject(o, st, d, patch)
    \/ \E o \in ObjIds, l \in Locs : CreateObject(o, l, "normal")
    \/ \E o \in ObjIds : TransferObject(o, "room_a", "Ann")

SpecUpdate == InitStore /\ [][NextUpdate]_vars

----------------------------------------------------------------------------
(* Deferred effects and agent locks (src/world.py 416-465).                *)

TICK_DURATION_MINUTES == 10

MaxTicks == 2                 \* ticks of simulated time explored

\* A Python call f(**args): it raises TypeError unless every required
\* parameter is among the keys and every key is a parameter.
Binds(args, required, optional) ==
    /\ required \subseteq DOMAIN args
    /\ DOMAIN args \subseteq (required \cup optional)

\* One effect against the world: [w, raised].  A False returned by the store
\* is dropped; an exception of the call propagates.
execute_pending_effect(w, effect) ==
    LET args == effect.args IN
    CASE effect.type = "CreateObject" ->
           IF Binds(args, {"object_id", "name", "location_id"},
                    {"state", "description", "mechanics", "internal_state"})
           THEN [raised |-> FALSE,
                 w |-> create_object(w, args.object_id, args.name,
                                     args.location_id,
                                     Get(args, "state", "normal"),
                                     Get(args, "description", ""),
                                     Get(args, "mechanics", ""),
                                     Get(args, "internal_state", EmptyDict)).w]
           ELSE [raised |-> TRUE, w |-> w]
      [] effect.type = "DestroyObject" ->
           [raised |-> FALSE,
            w |-> destroy_object(w, Get(args, "object_id", NoneVal)).w]
      [] effect.type = "TransferObject" ->
           IF Binds(args, {"object_id", "from_id", "to_id"}, {})
           THEN [raised |-> FALSE,
                 w |-> transfer_object(w, args.object_id, args.from_id,
                                       args.to_id).w]
           ELSE [raised |-> TRUE, w |-> w]
      [] effect.type = "UpdateObject" ->
           IF Binds(args, {"object_id"},
                    {"state", "description", "internal_state"})
           THEN [raised |-> FALSE,
                 w |-> update_object(w, args.object_id,
                                     Get(args, "state", NoneVal),
                                     Get(args, "description", NoneVal),
                                     Get(args, "internal_state", EmptyDict)).w]
           ELSE [raised |-> TRUE, w |-> w]
      [] OTHER -> [raised |-> FALSE, w |-> w]

\* World.execute_effect, which _finalize_interaction calls: the effect
\* dispatcher of the design (one dispatcher serves both the immediate and
\* the deferred path).
execute_effect(w, effect) == execute_pending_effect(w, effect)

\* "for effect in effects: run(effect)": [w, raised, n] with n the number of
\* effects whose call returned; the loop ends at the first exception.
RECURSIVE ReplayPending(_, _)
ReplayPending(w, effects) ==
    IF effects = <<>> THEN [w |-> w, raised |-> FALSE, n |-> 0]
    ELSE LET r == execute_pending_effect(w, Head(effects)) IN
         IF r.raised THEN [w |-> w, raised |-> TRUE, n |-> 0]
         ELSE LET rest == ReplayPending(r.w, Tail(effects))
              IN [rest EXCEPT !.n = @ + 1]

RECURSIVE ReplayNow(_, _)
ReplayNow(w, effects) ==
    IF effects = <<>> THEN [w |-> w, raised |-> FALSE, n |-> 0]
    ELSE LET r == execute_effect(w, Head(effects)) IN
         IF r.raised THEN [w |-> w, raised |-> TRUE, n |-> 0]
         ELSE LET rest == ReplayNow(r.w, Tail(effects))
              IN [rest EXCEPT !.n = @ + 1]

\* Messages are tuples of their parts, so that a synthesized message and a
\* narrative can be compared: a narrative text t is <<t>>.
Msg(t) == <<t>>
NoMsg == <<>>                                 \* None
Falsy(m) == m = NoMsg \/ m = Msg("")          \* "not m" for a message
FinishedMsg(reason) == <<"Finished", reason>>
StartedMsg(task, duration) == <<"Started", task, duration>>

set_agent_lock_merging(locks, now, a, duration, reason, completion_message, pending_effects) ==
    \* a set_agent_lock that keeps the effects of a lock already held
    SetKey(locks, a,
           [until_time |-> now + duration,
            reason |-> reason,
            completion_message |->
                IF Falsy(completion_message) THEN FinishedMsg(reason)
                ELSE completion_message,
            pending_effects |->
                IF a \in DOMAIN locks
                THEN locks[a].pending_effects \o pending_effects
                ELSE pending_effects])

set_agent_lock(locks, now, a, duration, reason, completion_message, pending_effects) ==
    SetKey(locks, a,
           [until_time |-> now + duration,
            reason |-> reason,
            completion_message |->
                IF Falsy(completion_message) THEN FinishedMsg(reason)
                ELSE completion_message,
            pending_effects |-> pending_effects])

\* check_agent_lock: [w, locks, result], result the returned dict, None, or
\* the exception that left the call
check_agent_lock(w, locks, now, a) ==
    IF a \notin DOMAIN locks
    THEN [w |-> w, locks |-> locks, result |-> [kind |-> "none"]]
    ELSE IF now >= locks[a].until_time
    THEN LET r == ReplayPending(w, locks[a].pending_effects) IN
         IF r.raised
         THEN [w |-> r.w, locks |-> locks, result |-> [kind |-> "raised"]]
         ELSE [w |-> r.w, locks |-> DropKey(locks, a),
               result |-> [kind |-> "expired", expired |-> TRUE,
                           message |-> locks[a].completion_message]]
    ELSE [w |-> w, locks |-> locks,
          result |-> [kind |-> "active", expired |-> FALSE,
                      reason |-> locks[a].reason]]

\* no call is in progress: the direct calls below are made between calls
Quiet == rs.pc = "idle" /\ pa.pc = "idle" /\ tk.pc = "idle"

AdvanceTime ==
    /\ Quiet
    /\ sim_time < MaxTicks * TICK_DURATION_MINUTES
    /\ sim_time' = sim_time + TICK_DURATION_MINUTES
    /\ ret' = [op |-> "advance_time"]
    /\ UNCHANGED <<locations, objects, agent_locations, agent_locks, rs,
                   pending_events, pa, tk>>

CheckAgentLock(a) ==
    LET r == check_agent_lock(World, agent_locks, sim_time, a) IN
    /\ Quiet
    /\ ListsBounded(r.w)
    /\ SetWorld(r.w)
    /\ agent_locks' = r.locks
    /\ ret' = [op |-> "check_agent_lock", agent |-> a, result |-> r.result]
    /\ UNCHANGED <<sim_time, rs, pending_events, pa, tk>>

SetAgentLock(a, duration, reason, completion_message, pending_effects) ==
    /\ Quiet
    /\ agent_locks' = set_agent_lock(agent_locks, sim_time, a, duration, reason,
                                     completion_message, pending_effects)
    /\ ret' = [op |-> "set_agent_lock", agent |-> a, duration |-> duration,
               reason |-> reason, completion_message |-> completion_message,
               pending_effects |-> pending_effects,
               prior |-> IF /\ a \in DOMAIN agent_locks
                            /\ sim_time < agent_locks[a].until_time
                         THEN <<agent_locks[a]>> ELSE <<>>]
    /\ UNCHANGED <<locations, objects, agent_locations, sim_time, rs,
                   pending_events, pa, tk>>

----------------------------------------------------------------------------
(* The interaction resolver (src/world_engine.py).                         *)

MAX_REACT_TURNS == 15

MaxEffects == 2               \* longest staged effect list explored
MaxTurns == 1                 \* collaborator turns explored per resolution

Truthy(v) == v # NoneVal /\ v # ""

\* The validators return an error dict or None: here "error" or NoneVal.
validate_update_object(w, args) ==
    IF Get(args, "object_id", NoneVal) \notin DOMAIN w.objects
    THEN "error" ELSE NoneVal

validate_create_object(w, args) ==
    IF Get(args, "object_id", NoneVal) \in DOMAIN w.objects THEN "error"
    ELSE IF /\ Truthy(Get(args, "location_id", NoneVal))
            /\ Get(args, "location_id", NoneVal) \notin DOMAIN w.locations
    THEN "error" ELSE NoneVal

validate_destroy_object(w, args) ==
    IF Get(args, "object_id", NoneVal) \notin DOMAIN w.objects
    THEN "error" ELSE NoneVal

validate_transfer_object(w, args) ==
    LET to_id == Get(args, "to_id", NoneVal) IN
    IF Get(args, "object_id", NoneVal) \notin DOMAIN w.objects THEN "error"
    ELSE IF /\ to_id \notin DOMAIN w.locations
            /\ to_id \notin DOMAIN w.agent_locations
            /\ to_id \notin DOMAIN w.objects
    THEN "error" ELSE NoneVal

action_tools ==
    [update_object |-> "UpdateObject", create_object |-> "CreateObject",
     destroy_object |-> "DestroyObject", transfer_object |-> "TransferObject"]

validator(w, func_name, args) ==
    CASE func_name = "update_object" -> validate_update_object(w, args)
      [] func_name = "create_object" -> validate_create_object(w, args)
      [] func_name = "destroy_object" -> validate_destroy_object(w, args)
      [] func_name = "transfer_object" -> validate_transfer_object(w, args)

\* InteractionResult.model_validate(args): message is required, duration
\* defaults to 0, task_description to None, other keys are ignored.
InteractionResult(args) ==
    [message |-> args.message,
     duration |-> Get(args, "duration", 0),
     task_description |-> Get(args, "task_description", NoneVal)]

dispatch_tool_unvalidated(w, func_name, args, pending_effects) ==
    \* a dispatcher that stages the effect of an action tool whatever its
    \* validator answers
    IF func_name \in DOMAIN action_tools
    THEN [kind |-> IF validator(w, func_name, args) # NoneVal
                   THEN "error" ELSE "staged",
          pending_effects |->
              Append(pending_effects,
                     [type |-> action_tools[func_name], args |-> args])]
    ELSE IF func_name = "interaction_result" /\ "message" \in DOMAIN args
    THEN [kind |-> "result", pending_effects |-> pending_effects,
          decision |-> InteractionResult(args)]
    ELSE [kind |-> "error", pending_effects |-> pending_effects]

\* _dispatch_tool: [kind, pending_effects] and, for kind "result", the decision.
\* kind is the tool result's shape: "ok" (a query answer), "staged", "error",
\* "result", or "raised" (an exception left _dispatch_tool).
dispatch_tool(w, func_name, args, pending_effects) ==
    IF func_name = "query_entity"
    THEN [kind |-> IF \/ Get(args, "entity_id", NoneVal) \in DOMAIN w.objects
                      \/ Get(args, "entity_id", NoneVal) \in DOMAIN w.agent_locations
                   THEN "ok" ELSE "error",
          pending_effects |-> pending_effects]
    ELSE IF func_name \in DOMAIN action_tools
    THEN IF validator(w, func_name, args) # NoneVal
         THEN [kind |-> "error", pending_effects |-> pending_effects]
         ELSE [kind |-> "staged",
               pending_effects |->
                   Append(pending_effects,
                          [type |-> action_tools[func_name], args |-> args])]
    ELSE IF func_name = "interaction_result"
    THEN IF "message" \in DOMAIN args
         THEN [kind |-> "result", pending_effects |-> pending_effects,
               decision |-> InteractionResult(args)]
         ELSE [kind |-> "raised", pending_effects |-> pending_effects]
    ELSE [kind |-> "error", pending_effects |-> pending_effects]

\* _finalize_interaction: [raised, w, locks, output]
finalize_interaction(w, locks, now, result_model, pending_effects, agent_name) ==
    IF result_model.duration > 0
    THEN LET task == IF Truthy(result_model.task_description)
                     THEN result_model.task_description ELSE "busy"
         IN [raised |-> FALSE, n |-> 0, w |-> w,
             locks |-> set_agent_lock(locks, now, agent_name,
                                      result_model.duration, task,
                                      result_model.message, pending_effects),
             output |-> [message |-> StartedMsg(task, result_model.duration)]]
    ELSE LET r == ReplayNow(w, pending_effects)
         IN [raised |-> r.raised, n |-> r.n, w |-> r.w, locks |-> locks,
             output |-> [message |-> result_model.message]]

Running(pc, agent, turn, pending_effects, executed) ==
    [pc |-> pc, agent |-> agent, turn |-> turn,
     pending_effects |-> pending_effects, executed |-> executed]

Failure(text) == [success |-> FALSE, message |-> Msg(text)]

Returned(how, out) ==
    [op |-> "resolve_interaction", agent |-> rs.agent, how |-> how,
     output |-> out, staged |-> Len(rs.pending_effects),
     llm_calls |-> rs.turn + 1]

Stepped_refreshing(t) ==
    \* a loop whose snapshots are refreshed with the events queued so far
    IF t.pc = "act"
    THEN [t EXCEPT !.i = @ + 1,
                   !.contexts =
                       [a \in DOMAIN @ |->
                           [@[a] EXCEPT !.pending_events =
                               @ \o Get(pending_events, a, <<>>)]]]
    ELSE t

\* the tick loop moves on to its next agent once a decision is applied
Stepped(t) == IF t.pc = "act" THEN [t EXCEPT !.i = @ + 1] ELSE t

\* resolve_interaction returns out.  Called directly, the caller has it (r).
\* Called by process_action (lines 387-414), process_action goes on: a
\* result with a truthy "success" is broadcast to the others at the actor's
\* location, and the result is returned.  w is the world at the return.
Return(w, out, r) ==
    /\ rs' = Idle
    /\ IF pa.pc = "idle"
       THEN /\ ret' = r
            /\ UNCHANGED <<pending_events, pa, tk>>
       ELSE /\ pending_events' =
                  IF /\ Get(out, "success", FALSE) = TRUE
                     /\ pa.location \in DOMAIN w.locations
                  THEN broadcast_to_location(w, pending_events, pa.location,
                                             <<pa.agent, out.message>>, pa.agent)
                  ELSE pending_events
            /\ pa' = Idle
            /\ tk' = Stepped(tk)
            /\ ret' = [op |-> "process_action", agent |-> pa.agent,
                       decision |-> pa.decision, result |-> out, inner |-> r]

\* resolve_interaction is entered: the locals are set up
ResolveInteraction(a) ==
    /\ Quiet
    /\ rs' = Running("await", a, 0, <<>>, FALSE)
    /\ ret' = [op |-> "resolve_interaction_called", agent |-> a]
    /\ UNCHANGED <<locations, objects, agent_locations, agent_locks, sim_time,
                   pending_events, pa, tk>>

LLMNone_applying ==
    \* a failure return that first runs the effects staged so far
    /\ rs.pc = "await"
    /\ SetWorld(ReplayNow(World, rs.pending_effects).w)
    /\ Return(ReplayNow(World, rs.pending_effects).w,
              Failure("The Game Master is silent (LLM Error)."),
              Returned("silent", Failure("The Game Master is silent (LLM Error).")))
    /\ UNCHANGED <<agent_locks, sim_time>>

\* the collaborator returns nothing
LLMNone ==
    /\ rs.pc = "await"
    /\ Return(World, Failure("The Game Master is silent (LLM Error)."),
              Returned("silent", Failure("The Game Master is silent (LLM Error).")))
    /\ UNCHANGED <<locations, objects, agent_locations, agent_locks, sim_time>>

\* a response with neither tool calls nor content
LLMEmpty ==
    /\ rs.pc = "await"
    /\ Return(World, Failure("GM Error: Empty response."),
              Returned("empty", Failure("GM Error: Empty response.")))
    /\ UNCHANGED <<locations, objects, agent_locations, agent_locks, sim_time>>

\* what the resolver appends to the conversation when a turn ends: the
\* reminder of _handle_no_tool_call, or the tool messages of the turn
Reminder == <<"user", "Please call 'interaction_result' to finalize the outcome.">>
ToolMessages == <<"tool">>

NextTurn_late(appended) ==
    \* a loop that tests the bound one iteration late
    IF rs.turn = MAX_REACT_TURNS
    THEN Return(World, Failure("The interaction took too long to resolve."),
                Returned("timeout",
                         Failure("The interaction took too long to resolve.")))
    ELSE /\ rs' = [rs EXCEPT !.pc = "await", !.turn = @ + 1]
         /\ ret' = [op |-> "turn_done", agent |-> rs.agent,
                    appended |-> appended]
         /\ UNCHANGED <<pending_events, pa, tk>>

\* the loop goes on to its next iteration, or ends after MAX_REACT_TURNS
NextTurn(appended) ==
    IF rs.turn + 1 = MAX_REACT_TURNS
    THEN Return(World, Failure("The interaction took too long to resolve."),
                Returned("timeout",
                         Failure("The interaction took too long to resolve.")))
    ELSE /\ rs' = [rs EXCEPT !.pc = "await", !.turn = @ + 1]
         /\ ret' = [op |-> "turn_done", agent |-> rs.agent,
                    appended |-> appended]
         /\ UNCHANGED <<pending_events, pa, tk>>

LLMText_ending(lim) ==
    \* a resolver that gives up on a response without a tool call
    /\ rs.pc = "await"
    /\ rs.turn < lim
    /\ Return(World, Failure("GM Error: No tool call."),
              Returned("text", Failure("GM Error: No tool call.")))
    /\ UNCHANGED <<locations, objects, agent_locations, agent_locks, sim_time>>

\* a response with text and no tool call: the reminder is appended
LLMText(lim) ==
    /\ rs.pc = "await"
    /\ rs.turn < lim
    /\ NextTurn(Reminder)
    /\ UNCHANGED <<locations, objects, agent_locations, agent_locks, sim_time>>

\* a response with tool calls: the calls are dispatched in order
LLMTools(lim) ==
    /\ rs.pc = "await"
    /\ rs.turn < lim
    /\ rs' = [rs EXCEPT !.pc = "first"]
    /\ ret' = [op |-> "tool_calls", agent |-> rs.agent]
    /\ UNCHANGED <<locations, objects, agent_locations, agent_locks, sim_time,
                   pending_events, pa, tk>>

\* json.loads(args_str).  The arguments text of a tool call is <<args>> when
\* it is the JSON of the object args, and <<>> when it is no JSON at all.
json_loads(args_str) ==
    IF Len(args_str) = 1 THEN [ok |-> TRUE, value |-> args_str[1]]
    ELSE [ok |-> FALSE, value |-> EmptyDict]

\* one tool call of the turn, lines 190-229
DispatchTool(call) ==
    /\ rs.pc \in {"first", "dispatch"}
    /\ LET p == json_loads(call.arguments)
           d == IF p.ok
                THEN dispatch_tool(World, call.name, p.value, rs.pending_effects)
                ELSE [kind |-> "raised", pending_effects |-> rs.pending_effects]
       IN
       /\ Len(d.pending_effects) <= MaxEffects
       /\ IF d.kind = "result"
          THEN LET f == finalize_interaction(World, agent_locks, sim_time,
                                             d.decision, rs.pending_effects,
                                             rs.agent)
               IN /\ ListsBounded(f.w)
                  /\ SetWorld(f.w)
                  /\ agent_locks' = f.locks
                  /\ IF f.raised
                     THEN /\ rs' = [rs EXCEPT !.pc = "dispatch",
                                              !.executed = @ \/ f.n > 0]
                          /\ ret' = [op |-> "tool", name |-> call.name,
                                     result |-> "raised",
                                     decision |-> d.decision]
                          /\ UNCHANGED <<pending_events, pa, tk>>
                     ELSE Return(f.w, f.output,
                                 [op |-> "resolve_interaction",
                                  agent |-> rs.agent, how |-> "finalized",
                                  output |-> f.output,
                                  decision |-> d.decision,
                                  staged |-> Len(rs.pending_effects),
                                  llm_calls |-> rs.turn + 1])
          ELSE /\ rs' = [rs EXCEPT !.pc = "dispatch",
                                   !.pending_effects = d.pending_effects]
               /\ ret' = [op |-> "tool", name |-> call.name, result |-> d.kind,
                          call |-> call]
               /\ UNCHANGED <<locations, objects, agent_locations, agent_locks,
                              pending_events, pa, tk>>
    /\ UNCHANGED sim_time

EndTurn_applying ==
    \* a turn that applies the effects staged so far when it ends
    /\ rs.pc = "dispatch"
    /\ NextTurn(ToolMessages)
    /\ SetWorld(ReplayPending(World, rs.pending_effects).w)
    /\ UNCHANGED <<agent_locks, sim_time>>

\* the turn's tool calls are all dispatched
EndTurn ==
    /\ rs.pc = "dispatch"
    /\ NextTurn(ToolMessages)
    /\ UNCHANGED <<locations, objects, agent_locations, agent_locks, sim_time>>

----------------------------------------------------------------------------
(* Broadcasts and context builds called on the World directly.             *)

MaxEvents == 2                \* messages waiting in one agent's queue

QueuesBounded(pe) == \A a \in DOMAIN pe : Len(pe[a]) <= MaxEvents

BroadcastToLocation(location_id, message, exclude_agent) ==
    LET pe == broadcast_to_location(World, pending_events, location_id,
                                    message, exclude_agent) IN
    /\ Quiet
    /\ QueuesBounded(pe)
    /\ pending_events' = pe
    /\ ret' = [op |-> "broadcast_to_location", location |-> location_id,
               message |-> message, exclude_agent |-> exclude_agent]
    /\ UNCHANGED <<locations, objects, agent_locations, agent_locks, sim_time,
                   rs, pa, tk>>

\* the context build of the loop (src/main.py line 70): the location passed
\* is the one the world records for the agent
GetAgentContextData(a) ==
    LET location_id == get_agent_location(World, a)
        r == get_agent_context_data(World, pending_events, sim_time, a,
                                    location_id) IN
    /\ Quiet
    /\ pending_events' = r.pe
    /\ ret' = [op |-> "get_agent_context_data", agent |-> a,
               location |-> location_id, data |-> r.data]
    /\ UNCHANGED <<locations, objects, agent_locations, agent_locks, sim_time,
                   rs, pa, tk>>

----------------------------------------------------------------------------
(* process_action (src/world.py 322-414) and the tick loop that calls it   *)
(* (src/main.py 48-98, src/app.py 307-370).                                *)

\* the result dict of process_action
Result(success, message) == [success |-> success, message |-> message]

\* process_action returns result; the loop then takes up its next agent
Done(a, decision, result) ==
    /\ ret' = [op |-> "process_action", agent |-> a, decision |-> decision,
               result |-> result]
    /\ tk' = Stepped(tk)
    /\ UNCHANGED <<rs, pa>>

NotHere_never(obj, current_location_id, agent_name) ==
    \* a check that lets every existing object pass
    FALSE

\* "obj.location_id != current_location_id and obj.location_id != agent_name"
NotHere(obj, current_location_id, agent_name) ==
    obj.location_id # current_location_id /\ obj.location_id # agent_name

ProcessAction(a, decision) ==
    LET action_type == Get(decision, "action_type", NoneVal)
        target == Get(decision, "target", NoneVal)
        content == Get(decision, "content", NoneVal)
        current_location_id == get_agent_location(World, a)
        Same == UNCHANGED <<locations, objects, agent_locations, agent_locks,
                            sim_time, pending_events>>
    IN
    /\ rs.pc = "idle"
    /\ pa.pc = "idle"
    /\ CASE action_type = "move" ->
           IF Truthy(target)
           THEN LET m == move_agent(World, a, target) IN
                /\ ListsBounded(m.w)
                /\ SetWorld(m.w)
                /\ Done(a, decision,
                        IF m.ok
                        THEN Result(TRUE, <<"Successfully moved to", target>>)
                        ELSE Result(FALSE,
                                <<"Failed to move to", target,
                                  get_connected_locations(World,
                                                          current_location_id)>>))
                /\ UNCHANGED <<agent_locks, sim_time, pending_events>>
           ELSE Same /\ Done(a, decision,
                             Result(FALSE, Msg("Move action requires a target.")))
         [] action_type = "talk" ->
           IF Truthy(content)
           THEN LET pe == broadcast_to_location(
                              World, pending_events, current_location_id,
                              <<"You heard", a, content>>, a) IN
                /\ QueuesBounded(pe)
                /\ pending_events' = pe
                /\ Done(a, decision, Result(TRUE, <<"You said", content>>))
                /\ UNCHANGED <<locations, objects, agent_locations,
                               agent_locks, sim_time>>
           ELSE Same /\ Done(a, decision,
                             Result(FALSE, Msg("Talk action requires content.")))
         [] action_type = "wait" ->
           Same /\ Done(a, decision, Result(TRUE, Msg("Waited for one tick.")))
         [] action_type = "interact" ->
           IF ~Truthy(target)
           THEN Same /\ Done(a, decision,
                  Result(FALSE, Msg("Interact action requires a target object.")))
           ELSE IF target \notin DOMAIN objects
           THEN Same /\ Done(a, decision,
                             Result(FALSE, <<"Object not found", target>>))
           ELSE IF NotHere(objects[target], current_location_id, a)
           THEN Same /\ Done(a, decision,
                  Result(FALSE, <<"Object is not in your current location",
                                  target>>))
           ELSE \* world_engine.resolve_interaction is entered
                /\ rs' = Running("await", a, 0, <<>>, FALSE)
                /\ pa' = [pc |-> "interact", agent |-> a,
                          location |-> current_location_id,
                          decision |-> decision]
                /\ ret' = [op |-> "resolve_interaction_called", agent |-> a]
                /\ Same
                /\ UNCHANGED tk
         [] OTHER ->
           Same /\ Done(a, decision,
                        Result(FALSE, <<"Unknown action type", action_type>>))

\* process_action called on the World for one agent (src/app.py line 352)
DirectAction(a, decision) ==
    /\ tk.pc = "idle"
    /\ ProcessAction(a, decision)

\* the agents in registration order
AgentOrder == <<"Ann", "Bob">>

Skipped_never(lock_status) ==
    \* a loop that builds a context for a busy agent too
    FALSE

\* "if lock_status: if expired: ... else: continue"
Skipped(lock_status) ==
    lock_status.kind # "none" /\ ~lock_status.expired

\* a tick of the loop begins: game_loop of main.py or run_tick of app.py
TickStart(driver) ==
    /\ Quiet
    /\ sim_time < MaxTicks * TICK_DURATION_MINUTES
    /\ tk' = [pc |-> "check", driver |-> driver, i |-> 1, active |-> <<>>,
              contexts |-> EmptyDict, decisions |-> EmptyDict]
    /\ ret' = [op |-> "tick", driver |-> driver]
    /\ UNCHANGED <<locations, objects, agent_locations, agent_locks, sim_time,
                   pending_events, rs, pa>>

\* step 1 for the next agent: the lock check and, unless the agent is
\* busy, its context.  An exception of check_agent_lock ends the loop.
TickCheck ==
    /\ tk.pc = "check"
    /\ tk.i <= Len(AgentOrder)
    /\ LET a == AgentOrder[tk.i]
           c == check_agent_lock(World, agent_locks, sim_time, a)
           x == get_agent_context_data(c.w, pending_events, sim_time, a,
                                       get_agent_location(c.w, a))
       IN /\ ListsBounded(c.w)
          /\ SetWorld(c.w)
          /\ agent_locks' = c.locks
          /\ IF c.result.kind = "raised"
             THEN /\ tk' = Idle
                  /\ ret' = [op |-> "loop_raised", agent |-> a, at |-> "check"]
                  /\ UNCHANGED pending_events
             ELSE IF Skipped(c.result)
             THEN /\ tk' = [tk EXCEPT !.i = @ + 1]
                  /\ ret' = [op |-> "tick_check", agent |-> a,
                             result |-> c.result, context |-> FALSE]
                  /\ UNCHANGED pending_events
             ELSE /\ tk' = [tk EXCEPT !.i = @ + 1,
                                      !.active = Append(@, a),
                                      !.contexts = SetKey(@, a, x.data)]
                  /\ pending_events' = x.pe
                  /\ ret' = [op |-> "tick_check", agent |-> a,
                             result |-> c.result, context |-> TRUE]
    /\ UNCHANGED <<sim_time, rs, pa>>

\* step 2: every active agent decides on its context; the decisions are
\* gathered before any of them is applied
TickDecide(decisions) ==
    /\ tk.pc = "check"
    /\ tk.i = Len(AgentOrder) + 1
    /\ DOMAIN decisions = {tk.active[k] : k \in 1..Len(tk.active)}
    /\ tk' = [tk EXCEPT !.pc = "act", !.i = 1, !.decisions = decisions]
    /\ ret' = [op |-> "decisions", decisions |-> decisions]
    /\ UNCHANGED <<locations, objects, agent_locations, agent_locks, sim_time,
                   pending_events, rs, pa>>

\* step 3 for the next agent: its decision, if it has one, is applied.
\* game_loop reads agent.inventory, which SimAgent does not have, and
\* passes inventory=, which process_action does not take: the call raises.
TickAct ==
    /\ tk.pc = "act"
    /\ tk.i <= Len(AgentOrder)
    /\ rs.pc = "idle"
    /\ pa.pc = "idle"
    /\ LET a == AgentOrder[tk.i] IN
       IF a \notin DOMAIN tk.decisions
       THEN /\ tk' = [tk EXCEPT !.i = @ + 1]
            /\ ret' = [op |-> "no_decision", agent |-> a]
            /\ UNCHANGED <<locations, objects, agent_locations, agent_locks,
                           sim_time, pending_events, rs, pa>>
       ELSE IF tk.driver = "game_loop"
       THEN /\ tk' = Idle
            /\ ret' = [op |-> "loop_raised", agent |-> a, at |-> "act"]
            /\ UNCHANGED <<locations, objects, agent_locations, agent_locks,
                           sim_time, pending_events, rs, pa>>
       ELSE ProcessAction(a, tk.decisions[a])

\* step 4: advance_time
TickEnd ==
    /\ tk.pc = "act"
    /\ tk.i = Len(AgentOrder) + 1
    /\ sim_time' = sim_time + TICK_DURATION_MINUTES
    /\ tk' = Idle
    /\ ret' = [op |-> "advance_time"]
    /\ UNCHANGED <<locations, objects, agent_locations, agent_locks,
                   pending_events, rs, pa>>

\* the dashboard is drawn between two ticks (src/app.py 204-209, 293,
\* 532-536): its status queries call check_agent_lock and keep only
\* whether the agent is busy
GetAgentStatusIcon(a) ==
    LET r == check_agent_lock(World, agent_locks, sim_time, a) IN
    /\ Quiet
    /\ ListsBounded(r.w)
    /\ SetWorld(r.w)
    /\ agent_locks' = r.locks
    /\ ret' = [op |-> "get_agent_status_icon", agent |-> a,
               status |-> IF r.result.kind = "raised" THEN "raised"
                          ELSE IF Skipped(r.result) THEN "busy" ELSE "idle"]
    /\ UNCHANGED <<sim_time, rs, pending_events, pa, tk>>

----------------------------------------------------------------------------
(* The inputs explored.                                                    *)

UpdLamp == [object_id |-> "lamp", state |-> "on"]
NewCup == [object_id |-> "cup", name |-> "Cup", location_id |-> "room_a"]
NewCupNoName == [object_id |-> "cup", location_id |-> "room_a"]
TakeCup == [object_id |-> "cup", from_id |-> "room_a", to_id |-> "Ann"]

Tool(name, args) == [name |-> name, arguments |-> <<args>>]
BadJson(name) == [name |-> name, arguments |-> <<>>]
Effect(type, args) == [type |-> type, args |-> args]

StagingCalls ==
    { Tool("update_object", UpdLamp),
      Tool("create_object", NewCup),
      Tool("create_object", NewCupNoName),
      Tool("transfer_object", TakeCup) }

ResultCalls ==
    { Tool("interaction_result", [message |-> Msg("done"), duration |-> 0]),
      Tool("interaction_result", [message |-> Msg("done"), duration |-> -5]),
      Tool("interaction_result", [message |-> Msg("done"), duration |-> 10,
                                  task_description |-> "repairing"]),
      Tool("interaction_result", [message |-> Msg(""), duration |-> 20]),
      Tool("interaction_result", [duration |-> 0]) }

ToolCalls ==
    StagingCalls \cup ResultCalls \cup {Tool("query_entity", [entity_id |-> "lamp"])}

\* calls that must be refused: unknown ids, an existing id, an unknown
\* destination, an unknown tool, arguments that are no JSON
FailCalls ==
    { Tool("update_object", [object_id |-> "vase", state |-> "on"]),
      Tool("destroy_object", [object_id |-> "vase"]),
      Tool("create_object", [object_id |-> "lamp", name |-> "Lamp",
                             location_id |-> "room_a"]),
      Tool("transfer_object", [object_id |-> "lamp", from_id |-> "room_a",
                               to_id |-> GhostLoc]),
      Tool("open_portal", [object_id |-> "lamp"]),
      BadJson("update_object") }

\* set_agent_lock called directly, as the unit tests do
LockArgs ==
    { [duration |-> 10, reason |-> "working", completion_message |-> NoMsg,
       pending_effects |-> <<>>],
      [duration |-> 5, reason |-> "making coffee", completion_message |-> NoMsg,
       pending_effects |-> <<Effect("CreateObject", NewCup)>>],
      [duration |-> 20, reason |-> "repairing",
       completion_message |-> Msg("Repair complete."),
       pending_effects |-> <<Effect("UpdateObject", UpdLamp)>>] }

Actors == {"Ann"}

\* setup_world: the scenario is loaded and the agents are placed
Init ==
    LET w0 == [locations |-> LoadedLocations(TestConfig),
               objects |-> LoadedObjects, agent_locations |-> EmptyDict]
        w1 == place_agent(w0, "Ann", "room_a").w
        w2 == place_agent(w1, "Bob", "room_a").w
    IN /\ locations = w2.locations
       /\ objects = w2.objects
       /\ agent_locations = w2.agent_locations
       /\ agent_locks = EmptyDict
       /\ sim_time = 0
       /\ pending_events = EmptyDict
       /\ rs = Idle
       /\ pa = Idle
       /\ tk = Idle
       /\ ret = [op |-> "init"]

Next ==
    \/ AdvanceTime
    \/ \E a \in Actors : CheckAgentLock(a)
    \/ \E a \in Actors, l \in LockArgs :
          SetAgentLock(a, l.duration, l.reason, l.completion_message,
                       l.pending_effects)
    \/ \E a \in Actors : ResolveInteraction(a)
    \/ LLMNone
    \/ LLMEmpty
    \/ LLMText(MaxTurns)
    \/ LLMTools(MaxTurns)
    \/ \E call \in ToolCalls : DispatchTool(call)
    \/ EndTurn

Spec == Init /\ [][Next]_vars

\* Locks set and checked directly while time passes
NextLock ==
    \/ AdvanceTime
    \/ \E a \in Agents : CheckAgentLock(a)
    \/ \E a \in Agents, l \in LockArgs :
          SetAgentLock(a, l.duration, l.reason, l.completion_message,
                       l.pending_effects)

SpecLock == Init /\ [][NextLock]_vars

\* Resolutions whose collaborator also issues calls that must be refused
MixedCalls ==
    FailCalls \cup
    { Tool("update_object", UpdLamp),
      Tool("create_object", NewCup),
      Tool("transfer_object", TakeCup),
      Tool("query_entity", [entity_id |-> "lamp"]),
      Tool("interaction_result", [message |-> Msg("done"), duration |-> 0]),
      Tool("interaction_result", [message |-> Msg("done"), duration |-> 10]) }

NextTools ==
    \/ \E a \in Actors : ResolveInteraction(a)
    \/ LLMNone
    \/ LLMEmpty
    \/ LLMText(MaxTurns)
    \/ LLMTools(MaxTurns)
    \/ \E call \in MixedCalls : DispatchTool(call)
    \/ EndTurn

SpecTools == Init /\ [][NextTools]_vars

\* One resolution after another with a collaborator that may use every turn
BoundCalls ==
    { Tool("update_object", UpdLamp),
      Tool("create_object", NewCupNoName),
      Tool("interaction_result", [message |-> Msg("done"), duration |-> 0]),
      Tool("interaction_result", [message |-> Msg("done"), duration |-> 10]) }

NextBound ==
    \/ \E a \in Actors : ResolveInteraction(a)
    \/ LLMNone
    \/ LLMEmpty
    \/ LLMText(MAX_REACT_TURNS)
    \/ LLMTools(MAX_REACT_TURNS)
    \/ \E call \in BoundCalls : DispatchTool(call)
    \/ EndTurn

SpecBound == Init /\ [][NextBound]_vars

\* Broadcasts and context builds while agents move and locks are held
Messages == {Msg("a bell rings"), Msg("the lights flicker")}

NextEvents ==
    \/ \E l \in Locs \cup {GhostLoc}, m \in Messages,
          x \in Agents \cup {NoneVal} : BroadcastToLocation(l, m, x)
    \/ \E a \in Agents : GetAgentContextData(a)
    \/ \E a \in Agents, to \in Locs : MoveAgent(a, to)
    \/ \E a \in Actors :
          SetAgentLock(a, 10, "working", NoMsg, <<>>)

SpecEvents == Init /\ [][NextEvents]_vars

\* Decisions of every action type, with and without their parameters
Decisions ==
    { [action_type |-> "wait"],
      [action_type |-> "move", target |-> "room_b"],
      [action_type |-> "move", target |-> GhostLoc],
      [action_type |-> "move"],
      [action_type |-> "talk", content |-> "hello"],
      [action_type |-> "talk"],
      [action_type |-> "interact", target |-> "lamp", content |-> "switch on"],
      [action_type |-> "interact", target |-> "vase"],
      [action_type |-> "interact"],
      [action_type |-> "dance"] }

ActionCalls ==
    { Tool("update_object", UpdLamp),
      Tool("interaction_result", [message |-> Msg("done"), duration |-> 0]),
      Tool("interaction_result", [message |-> Msg("done"), duration |-> 20]) }

\* process_action called for one agent after another
NextAction ==
    \/ \E a \in Agents, d \in Decisions : DirectAction(a, d)
    \/ LLMNone
    \/ LLMEmpty
    \/ LLMText(MaxTurns)
    \/ LLMTools(MaxTurns)
    \/ \E call \in ActionCalls : DispatchTool(call)
    \/ EndTurn

SpecAction == Init /\ [][NextAction]_vars

\* The tick loop
LoopDecisions ==
    { [action_type |-> "wait"],
      [action_type |-> "move", target |-> "room_b"],
      [action_type |-> "talk", content |-> "hello"],
      [action_type |-> "interact", target |-> "lamp", content |-> "switch on"] }

\* interactions of the loop: lasting one tick, or more
LoopCalls ==
    ActionCalls \cup
    { Tool("create_object", NewCupNoName),
      Tool("interaction_result", [message |-> Msg("done"), duration |-> 10]) }

NextLoop ==
    \/ \E driver \in {"game_loop", "run_tick"} : TickStart(driver)
    \/ TickCheck
    \/ \E active \in SUBSET Agents :
          \E decisions \in [active -> LoopDecisions] : TickDecide(decisions)
    \/ TickAct
    \/ TickEnd
    \/ LLMNone
    \/ LLMTools(MaxTurns)
    \/ \E call \in LoopCalls : DispatchTool(call)
    \/ EndTurn

SpecLoop == Init /\ [][NextLoop]_vars

\* The tick loop with the dashboard drawn between the ticks
NextDashboard ==
    \/ NextLoop
    \/ \E a \in Agents : GetAgentStatusIcon(a)

SpecDashboard == Init /\ [][NextDashboard]_vars

\* Ticks in which one agent's interaction removes what another agent
\* decided to interact with
TargetDecisions ==
    { [action_type |-> "interact", target |-> "lamp", content |-> "take it"],
      [action_type |-> "interact", target |-> "vase", content |-> "lift it"],
      [action_type |-> "move", target |-> "room_b"] }

TargetCalls ==
    { Tool("destroy_object", [object_id |-> "lamp"]),
      Tool("transfer_object", [object_id |-> "lamp", from_id |-> "room_a",
                               to_id |-> "Ann"]),
      Tool("interaction_result", [message |-> Msg("done"), duration |-> 0]) }

NextTarget ==
    \/ TickStart("run_tick")
    \/ TickCheck
    \/ \E active \in SUBSET Agents :
          \E decisions \in [active -> TargetDecisions] : TickDecide(decisions)
    \/ TickAct
    \/ TickEnd
    \/ LLMNone
    \/ LLMTools(MaxTurns)
    \/ \E call \in TargetCalls : DispatchTool(call)
    \/ EndTurn

SpecTarget == Init /\ [][NextTarget]_vars

\* Resolutions of both agents whose deferred effects meet at expiry
ExpiryCalls ==
    { Tool("update_object", UpdLamp),
      Tool("update_object", [object_id |-> "lamp", state |-> "broken"]),
      Tool("interaction_result", [message |-> Msg("done"), duration |-> 10]) }

NextExpiry ==
    \/ \E a \in Agents : ResolveInteraction(a)
    \/ LLMNone
    \/ LLMTools(MaxTurns)
    \/ \E call \in ExpiryCalls : DispatchTool(call)
    \/ EndTurn
    \/ AdvanceTime
    \/ \E a \in Agents : CheckAgentLock(a)

SpecExpiry == Init /\ [][NextExpiry]_vars

\* Resolutions whose effects put objects into containers and destroy
\* containers
OwnerCalls ==
    { Tool("create_object", NewCup),
      Tool("transfer_object", [object_id |-> "cup", from_id |-> "room_a",
                               to_id |-> "lamp"]),
      Tool("transfer_object", [object_id |-> "lamp", from_id |-> "room_a",
                               to_id |-> "lamp"]),
      Tool("transfer_object", [object_id |-> "lamp", from_id |-> "room_a",
                               to_id |-> "Ann"]),
      Tool("destroy_object", [object_id |-> "lamp"]),
      Tool("interaction_result", [message |-> Msg("done"), duration |-> 0]) }

NextOwner ==
    \/ \E a \in Actors : ResolveInteraction(a)
    \/ LLMNone
    \/ LLMTools(MaxTurns)
    \/ \E call \in OwnerCalls : DispatchTool(call)
    \/ EndTurn

SpecOwner == Init /\ [][NextOwner]_vars

----------------------------------------------------------------------------
(* SimAgent.decide of src/agent.py: one answer of the reasoning service    *)
(* becomes the decision dict the loop applies.                             *)

\* What async_chat_completion returns: None, or a message whose content is
\* the empty string, a text that is no JSON, or the JSON text of an object.
NoResponse == [kind |-> "none"]
Message(content) == [kind |-> "message", content |-> content]
NotJson == [text |-> "not valid json"]
JsonOf(value) == [text |-> "json", value |-> value]

\* AgentDecision.model_validate_json(content): a ValidationError unless the
\* text is the JSON of an object with reasoning, one of the four action
\* types and an action
model_validate_json(content) ==
    IF /\ "value" \in DOMAIN content
       /\ {"reasoning", "action_type", "action"} \subseteq DOMAIN content.value
       /\ content.value.action_type \in {"move", "talk", "interact", "wait"}
    THEN [ok |-> TRUE, decision |-> content.value]
    ELSE [ok |-> FALSE]

\* decide(current_tick, world_context) for an agent that is not busy
\* (busy_until stays 0); response is the answer of the call that did not
\* raise
decide(response) ==
    IF response.kind = "none" \/ response.content.text = ""
    THEN [action_type |-> "wait", reasoning |-> "Decision failed"]
    ELSE LET v == model_validate_json(response.content)
             failed == [action_type |-> "wait", reasoning |-> "Validation Error",
                        target |-> NoneVal, content |-> NoneVal]
         IN IF ~v.ok THEN failed
            ELSE LET d == v.decision
                     action_params == d.action
                     base == [failed EXCEPT !.reasoning = d.reasoning,
                                            !.action_type = d.action_type]
                 IN CASE d.action_type = "move" ->
                           [base EXCEPT !.target =
                               Get(action_params, "location_id", NoneVal)]
                      [] d.action_type = "talk" ->
                           [base EXCEPT
                              !.content = Get(action_params, "message", NoneVal),
                              !.target =
                                  Get(action_params, "target_agent", NoneVal)]
                      [] d.action_type = "interact" ->
                           [base EXCEPT
                              !.target = Get(action_params, "object_id", NoneVal),
                              !.content = Get(action_params, "action", NoneVal)]
                      [] OTHER ->
                           [base EXCEPT !.content =
                               Get(action_params, "reason", NoneVal)]

\* Answers of the reasoning service the loop is explored with
Responses ==
    { NoResponse,
      Message([text |-> ""]),
      Message(NotJson),
      Message(JsonOf([reasoning |-> "thinking", action_type |-> "fly",
                      action |-> [reason |-> "up"]])),
      Message(JsonOf([reasoning |-> "thinking", action_type |-> "wait",
                      action |-> [reason |-> "observing"]])),
      Message(JsonOf([reasoning |-> "thinking", action_type |-> "move",
                      action |-> [location_id |-> "room_b"]])),
      Message(JsonOf([reasoning |-> "thinking", action_type |-> "talk",
                      action |-> [message |-> "hello",
                                  target_agent |-> NoneVal]])) }

\* The tick loop with the decisions decide makes of the service's answers
NextDecide ==
    \/ \E driver \in {"game_loop", "run_tick"} : TickStart(driver)
    \/ TickCheck
    \/ \E active \in SUBSET Agents :
          \E responses \in [active -> Responses] :
              TickDecide([a \in active |-> decide(responses[a])])
    \/ TickAct
    \/ TickEnd

SpecDecide == Init /\ [][NextDecide]_vars

----------------------------------------------------------------------------
(* SimAgent.decide of src/agentia/agent.py: a loop of service calls in     *)
(* which an update_plan tool call replaces the plan and asks again.        *)

MaxCalls == 3                 \* service calls of one decide explored

\* AgentDecision.fallback(reasoning)
fallback(reasoning) ==
    [reasoning |-> reasoning, action_type |-> "wait",
     action |-> [reason |-> "fallback"]]

\* one tool call of an answer: update_plan sets daily_plan and notes the
\* planning in short-term memory; bad arguments are logged; any other
\* tool is ignored
handle_tool_call(st, call) ==
    IF call.name = "update_plan" /\ json_loads(call.arguments).ok
    THEN LET tasks == json_loads(call.arguments).value.tasks IN
         [st EXCEPT !.daily_plan = tasks,
                    !.short_term = Append(@, <<"Planning", Len(tasks)>>)]
    ELSE st

\* decide(world_context) is called: short-term memory is cleared, the loop
\* starts
DecideCall(a) ==
    /\ Quiet
    /\ tk' = [pc |-> "decide", agent |-> a, llm_calls |-> 0,
              daily_plan |-> <<>>, short_term |-> <<>>]
    /\ ret' = [op |-> "decide_called", agent |-> a]
    /\ UNCHANGED <<locations, objects, agent_locations, agent_locks, sim_time,
                   pending_events, rs, pa>>

\* the end of decide: a decision is returned, or an exception leaves it
DecideReturn(how, decision) ==
    /\ tk' = Idle
    /\ ret' = [op |-> "decide", agent |-> tk.agent, how |-> how,
               decision |-> decision, llm_calls |-> tk.llm_calls + 1,
               daily_plan |-> tk.daily_plan, short_term |-> tk.short_term]

\* one pass of the loop: the service is called and its answer handled.  An
\* answer with tool calls is followed by another pass, without any limit
\* in the code; the exploration follows MaxCalls calls of one decide.
DecideAnswer(answer) ==
    /\ tk.pc = "decide"
    /\ CASE answer.kind = "raises" -> DecideReturn("fallback", fallback("LLM Error"))
         [] answer.kind = "none" ->
              DecideReturn("fallback", fallback("Empty Response"))
         [] answer.kind = "tool_calls" ->
              /\ tk.llm_calls + 1 < MaxCalls
              /\ tk' = [handle_tool_call(tk, answer.call)
                          EXCEPT !.llm_calls = @ + 1]
              /\ ret' = [op |-> "decide_continues", agent |-> tk.agent,
                         call |-> answer.call]
         [] answer.kind = "no_content" ->
              \* response.content.strip() on None
              /\ tk' = Idle
              /\ ret' = [op |-> "decide_raised", agent |-> tk.agent]
         [] OTHER ->
              LET v == model_validate_json(answer.content) IN
              IF v.ok THEN DecideReturn("decided", v.decision)
              ELSE DecideReturn("fallback", fallback("Parse Error"))
    /\ UNCHANGED <<locations, objects, agent_locations, agent_locks, sim_time,
                   pending_events, rs, pa>>

\* Answers of the service one decide is explored with
Answers ==
    { [kind |-> "raises"], NoResponse, [kind |-> "no_content"],
      Message(NotJson),
      Message(JsonOf([reasoning |-> "thinking", action_type |-> "wait",
                      action |-> [reason |-> "observing"]])),
      Message(JsonOf([reasoning |-> "thinking", action_type |-> "move",
                      action |-> [location_id |-> "room_b"]])),
      [kind |-> "tool_calls",
       call |-> Tool("update_plan", [tasks |-> <<"buy milk">>])],
      [kind |-> "tool_calls",
       call |-> Tool("update_plan", [tasks |-> <<"buy milk", "go home">>])],
      [kind |-> "tool_calls", call |-> BadJson("update_plan")],
      [kind |-> "tool_calls", call |-> BadJson("open_portal")] }

NextPlan ==
    \/ \E a \in Agents : DecideCall(a)
    \/ \E answer \in Answers : DecideAnswer(answer)

SpecPlan == Init /\ [][NextPlan]_vars

----------------------------------------------------------------------------
(* Claims about the store operations.                                      *)

\* occurrences of object o over all locations' objects lists
Occurrences(o) ==
    Cardinality({p \in Locs \X (1..(MaxList + 1)) :
                    /\ p[2] <= Len(locations[p[1]].objects)
                    /\ locations[p[1]].objects[p[2]] = o})

Presence == [l \in Locs |-> locations[l].agents_present]

\* C5: move_agent(a, Y) for an agent at X succeeds iff a graph edge connects
\* X and Y; on success a leaves X's presence list, enters Y's exactly once
\* and its position becomes Y; on failure no presence list and no position
\* changes.
C5_MovementValidity ==
    [][ret'.op = "move_agent" =>
         LET a == ret'.agent
             Y == ret'.to
         IN IF a \notin DOMAIN agent_locations
            THEN ~ret'.ok /\ Presence' = Presence
                          /\ agent_locations' = agent_locations
            ELSE LET X == agent_locations[a] IN
                 /\ ret'.ok <=> has_edge(World, X, Y)
                 /\ ret'.ok =>
                      /\ agent_locations'[a] = Y
                      /\ Count(Presence'[Y], a) = Count(Presence[Y], a) + 1
                      /\ Count(Presence'[X], a) = Count(Presence[X], a) - 1
                 /\ ~ret'.ok =>
                      /\ Presence' = Presence
                      /\ agent_locations' = agent_locations]_vars

\* C6: after any sequence of create / destroy / transfer calls every existing
\* object id occurs in at most one location's objects list, at most once, and
\* in none when its owner is an agent or a container.
C6_ObjectConservation ==
    \A o \in DOMAIN objects :
        /\ Occurrences(o) <= 1
        /\ objects[o].location_id \notin Locs => Occurrences(o) = 0

----------------------------------------------------------------------------
(* Claims about locks and deferred effects.                                *)

\* a step in which check_agent_lock(a) ran
Checked(a) == ret'.op = "check_agent_lock" /\ ret'.agent = a

\* C1: while sim_time < until_time every check returns Active with the
\* reason and changes nothing; the first check with sim_time >= until_time
\* returns Expired, has applied the lock's effects once and has removed the
\* lock; a check without a lock returns None and applies nothing.
C1_ExactlyOnceExpiry ==
    [][\A a \in Agents : Checked(a) =>
         IF a \notin DOMAIN agent_locks
         THEN /\ ret'.result = [kind |-> "none"]
              /\ World' = World
              /\ agent_locks' = agent_locks
         ELSE IF sim_time < agent_locks[a].until_time
         THEN /\ ret'.result = [kind |-> "active", expired |-> FALSE,
                                reason |-> agent_locks[a].reason]
              /\ World' = World
              /\ agent_locks' = agent_locks
         ELSE /\ ret'.result = [kind |-> "expired", expired |-> TRUE,
                                message |-> agent_locks[a].completion_message]
              /\ World' = ReplayPending(World, agent_locks[a].pending_effects).w
              /\ a \notin DOMAIN agent_locks']_vars

\* C7: set_agent_lock for an agent holding an unexpired lock leaves a lock
\* made of the new until_time, reason, completion message and effects only,
\* applies nothing, and a later expiry applies the effects of the lock then
\* held and no others.
C7_LockOverwrite ==
    [][/\ (ret'.op = "set_agent_lock" /\ ret'.prior # <<>>) =>
            /\ agent_locks'[ret'.agent] =
                   [until_time |-> sim_time + ret'.duration,
                    reason |-> ret'.reason,
                    completion_message |->
                        IF Falsy(ret'.completion_message)
                        THEN FinishedMsg(ret'.reason)
                        ELSE ret'.completion_message,
                    pending_effects |-> ret'.pending_effects]
            /\ World' = World
       /\ \A a \in Agents : (Checked(a) /\ World' # World) =>
            /\ a \in DOMAIN agent_locks
            /\ World' = ReplayPending(World, agent_locks[a].pending_effects).w
      ]_vars

\* a lock with effects was overwritten, while unexpired, by one without
C7_Witness ==
    /\ ret.op = "set_agent_lock"
    /\ ret.prior # <<>>
    /\ ret.prior[1].pending_effects # <<>>
    /\ ret.pending_effects = <<>>
    /\ agent_locks[ret.agent].pending_effects = <<>>

\* C8: a check that observes an expired lock does not raise: every effect of
\* the batch is run, the lock is deleted and Expired is returned.
C8_ReplayRobustness ==
    [][\A a \in Agents :
         (/\ Checked(a)
          /\ a \in DOMAIN agent_locks
          /\ sim_time >= agent_locks[a].until_time) =>
            LET r == ReplayPending(World, agent_locks[a].pending_effects) IN
            /\ ~r.raised
            /\ r.n = Len(agent_locks[a].pending_effects)
            /\ ret'.result.kind = "expired"
            /\ a \notin DOMAIN agent_locks']_vars

----------------------------------------------------------------------------
(* Claims about the resolver.                                              *)

\* a step in which an interaction_result was accepted and finalization
\* was entered (it returned, or an exception left it)
Finalizing == ret'.op \in {"tool", "resolve_interaction"} /\ "decision" \in DOMAIN ret'

\* a step in which resolve_interaction returned a finalized outcome
Finalized == ret'.op = "resolve_interaction" /\ ret'.how = "finalized"

C3_ImmediateFinalization ==
    [][(Finalizing /\ ret'.decision.duration <= 0) =>
         LET r == ReplayNow(World, rs.pending_effects) IN
         /\ Finalized
         /\ r.n = Len(rs.pending_effects)
         /\ World' = r.w
         /\ ret'.output.message = ret'.decision.message
         /\ agent_locks' = agent_locks]_vars

\* C4: a resolution's staged list enters one application path only: no
\* finalization handles a list of which effects have been run already, and
\* a lock check that runs effects removes the lock that held them.
C4_SingleApplicationPath ==
    [][/\ (Finalizing /\ rs.pending_effects # <<>>) => ~rs.executed
       /\ \A a \in Agents :
            (/\ Checked(a)
             /\ a \in DOMAIN agent_locks
             /\ sim_time >= agent_locks[a].until_time
             /\ ReplayPending(World, agent_locks[a].pending_effects).n > 0)
            => a \notin DOMAIN agent_locks']_vars

\* C9: a resolution makes at most MAX_REACT_TURNS collaborator calls; the
\* call counter only grows; a resolution that ends on the bound returns a
\* failure and changes neither world nor locks; no step of a resolution
\* other than a finalization changes world or locks.
C9_BoundedResolution ==
    /\ [](rs.pc # "idle" => rs.turn < MAX_REACT_TURNS)
    /\ [](ret.op = "resolve_interaction" => ret.llm_calls <= MAX_REACT_TURNS)
    /\ [][/\ (rs.pc # "idle" /\ rs'.pc # "idle") =>
                /\ rs'.turn >= rs.turn
                /\ ((rs.pc # "await" /\ rs'.pc = "await")
                       => rs'.turn = rs.turn + 1)
          /\ (ret'.op = "resolve_interaction" /\ ret'.how = "timeout") =>
               /\ ret'.llm_calls = MAX_REACT_TURNS
               /\ ret'.output.success = FALSE
               /\ World' = World
               /\ agent_locks' = agent_locks
          /\ (rs.pc # "idle" /\ ~Finalizing) =>
               /\ World' = World
               /\ agent_locks' = agent_locks]_vars

\* the bound was exhausted with effects staged and none applied
C9_Witness ==
    /\ ret.op = "resolve_interaction"
    /\ ret.how = "timeout"
    /\ ret.llm_calls = MAX_REACT_TURNS
    /\ ret.staged > 0
    /\ objects["lamp"].state = "normal"
    /\ agent_locks = EmptyDict

\* C10: once create_object(cup, room_a) is staged, the transfer of the cup
\* from room_a to Ann is accepted and staged, and the immediate
\* finalization of the two leaves the cup existing and in Ann's inventory.
C10_DependentStaging ==
    [][/\ (/\ rs.pc \in {"first", "dispatch"}
           /\ rs.pending_effects = <<Effect("CreateObject", NewCup)>>
           /\ ret'.op = "tool"
           /\ ret'.name = "transfer_object") => ret'.result = "staged"
       /\ (/\ Finalized
           /\ ret'.decision.duration = 0
           /\ rs.pending_effects = <<Effect("CreateObject", NewCup),
                                     Effect("TransferObject", TakeCup)>>) =>
             /\ "cup" \in DOMAIN objects'
             /\ "cup" \in get_agent_inventory(World', "Ann")]_vars

\* C18: create_object of an existing id, and destroy_object, transfer_object
\* and update_object of an id that does not exist, return False and leave
\* objects, locations and locks as they were.
C18_FailWithoutSideEffects ==
    [][(\/ ret'.op = "create_object" /\ ret'.object_id \in DOMAIN objects
        \/ /\ ret'.op \in {"destroy_object", "transfer_object", "update_object"}
           /\ ret'.object_id \notin DOMAIN objects) =>
          /\ ret'.ok = FALSE
          /\ World' = World
          /\ agent_locks' = agent_locks]_vars

\* a create of an id that exists was refused
C18_Witness ==
    /\ ret.op = "create_object"
    /\ ret.ok = FALSE
    /\ ret.object_id \in DOMAIN objects
    /\ Len(locations["room_a"].objects) + Len(locations["room_b"].objects) > 0

----------------------------------------------------------------------------
(* Claims about refused tool calls and collaborator failure.               *)

KnownTools ==
    {"query_entity", "update_object", "create_object", "destroy_object",
     "transfer_object", "interaction_result"}

\* the call is one the claim names: an update / destroy / transfer of an
\* object that does not exist, a create of an id that exists, a transfer to
\* a destination that does not exist, an unknown tool, unparsable arguments
Refusable(call) ==
    \/ Len(call.arguments) = 0
    \/ call.name \notin KnownTools
    \/ /\ Len(call.arguments) = 1
       /\ LET args == call.arguments[1] IN
          \/ /\ call.name \in {"update_object", "destroy_object", "transfer_object"}
             /\ args.object_id \notin DOMAIN objects
          \/ /\ call.name = "create_object"
             /\ args.object_id \in DOMAIN objects
          \/ /\ call.name = "transfer_object"
             /\ args.to_id \notin DOMAIN locations \cup DOMAIN agent_locations
                                 \cup DOMAIN objects

\* C11: a refusable tool call is answered with an error value, leaves the
\* pending-effect list, the world and the locks unchanged, and the loop
\* goes on in the same turn.
C11_FailedCallsStageNothing ==
    [][(/\ rs.pc \in {"first", "dispatch"}
        /\ ret'.op = "tool"
        /\ "call" \in DOMAIN ret'
        /\ Refusable(ret'.call)) =>
          /\ ret'.result \in {"error", "raised"}
          /\ rs'.pc = "dispatch"
          /\ rs'.turn = rs.turn
          /\ rs'.pending_effects = rs.pending_effects
          /\ World' = World
          /\ agent_locks' = agent_locks]_vars

\* a transfer was refused while effects were staged, and the loop goes on
C11_Witness ==
    /\ ret.op = "tool"
    /\ "call" \in DOMAIN ret
    /\ ret.call.name = "transfer_object"
    /\ ret.result = "error"
    /\ rs.pc = "dispatch"
    /\ rs.pending_effects # <<>>

\* C12: when the collaborator returns nothing the resolution returns a
\* failure at once, with no further collaborator call, and that return
\* changes neither objects, locations nor locks.
C12_CollaboratorFailure ==
    [][(/\ rs.pc = "await"
        /\ ret'.op = "resolve_interaction"
        /\ ret'.how = "silent") =>
          /\ ret'.output.success = FALSE
          /\ ret'.llm_calls = rs.turn + 1
          /\ rs' = Idle
          /\ World' = World
          /\ agent_locks' = agent_locks]_vars

\* the collaborator failed in a later turn, with effects staged
C12_Witness ==
    /\ ret.op = "resolve_interaction"
    /\ ret.how = "silent"
    /\ ret.llm_calls > 1
    /\ ret.staged > 0
    /\ rs = Idle

\* C16: the lock registered by a finalization with duration > 0 carries the
\* narrative message as its completion message, and the Expired result of
\* the check at expiry carries the lock's completion message.
C16_CompletionMessageVerbatim ==
    [][/\ (Finalized /\ ret'.decision.duration > 0) =>
            agent_locks'[ret'.agent].completion_message = ret'.decision.message
       /\ \A a \in Agents :
            (Checked(a) /\ ret'.result.kind = "expired") =>
                ret'.result.message = agent_locks[a].completion_message]_vars

\* C19: update_object on an existing object gives every key of the patch
\* the patch's value and leaves the other keys of the hidden state as they
\* were; state and description change only to a supplied non-null value;
\* name and owner pointer stay, and no other object changes.
C19_UpdateMerges ==
    [][(ret'.op = "update_object" /\ ret'.object_id \in DOMAIN objects) =>
         LET o == ret'.object_id
             P == ret'.internal_state
             old == objects[o]
             new == objects'[o]
         IN /\ ret'.ok
            /\ DOMAIN objects' = DOMAIN objects
            /\ DOMAIN new.internal_state = DOMAIN old.internal_state \cup DOMAIN P
            /\ \A k \in DOMAIN P : new.internal_state[k] = P[k]
            /\ \A k \in DOMAIN old.internal_state \ DOMAIN P :
                  new.internal_state[k] = old.internal_state[k]
            /\ new.state = IF ret'.state # NoneVal THEN ret'.state ELSE old.state
            /\ new.description = IF ret'.description # NoneVal
                                 THEN ret'.description ELSE old.description
            /\ new.location_id = old.location_id
            /\ new.name = old.name
            /\ new.mechanics = old.mechanics
            /\ \A x \in DOMAIN objects \ {o} : objects'[x] = objects[x]
            /\ locations' = locations]_vars

\* a patch of one key was merged into a hidden state that keeps its other key
C19_Witness ==
    /\ ret.op = "update_object"
    /\ ret.ok
    /\ ret.object_id = "lamp"
    /\ ret.internal_state = [locked |-> "yes"]
    /\ ret.state = NoneVal
    /\ objects["lamp"].internal_state = [power |-> "on", locked |-> "yes"]
    /\ objects["lamp"].state = "on"

----------------------------------------------------------------------------
(* Claims about the event queues and the agent-facing context.             *)

Queue(pe, a) == Get(pe, a, <<>>)

Present(l, a) == l \in DOMAIN locations /\ InList(locations[l].agents_present, a)

\* C14: broadcast_to_location(L, msg, exclude_agent = x) appends msg to the
\* queue of every agent present at L other than x and changes no other
\* queue (so x never receives msg); the next context build of a recipient
\* returns every queued message exactly as often as it was queued and
\* leaves the recipient's queue empty.
C14_BroadcastDelivery ==
    [][ /\ ret'.op = "broadcast_to_location" =>
             \A a \in Agents :
                Queue(pending_events', a) =
                    IF Present(ret'.location, a) /\ a # ret'.exclude_agent
                    THEN Append(Queue(pending_events, a), ret'.message)
                    ELSE Queue(pending_events, a)
        /\ ret'.op = "get_agent_context_data" =>
             /\ \A m \in Messages :
                   Count(ret'.data.pending_events, m)
                       = Count(Queue(pending_events, ret'.agent), m)
             /\ Queue(pending_events', ret'.agent) = <<>>
             /\ \A b \in Agents \ {ret'.agent} :
                   Queue(pending_events', b) = Queue(pending_events, b)
      ]_vars

\* a context build has delivered a broadcast whose sender was left out
C14_Witness ==
    /\ ret.op = "get_agent_context_data"
    /\ ret.agent = "Bob"
    /\ Count(ret.data.pending_events, Msg("a bell rings")) = 1
    /\ Queue(pending_events, "Ann") = <<>>
    /\ Present("room_a", "Ann") /\ Present("room_a", "Bob")

\* C17: events broadcast to an agent between two of its context builds,
\* locked or not, are queued in broadcast order (each is appended behind
\* those already waiting); the next context build returns all of them in
\* that order and clears the queue, so a build that follows with no
\* broadcast in between returns no events.
C17_EventAccumulation ==
    [][ /\ \A a \in Agents :
             LET old == Queue(pending_events, a)
                 new == Queue(pending_events', a)
             IN \/ new = old
                \/ /\ ret'.op = "broadcast_to_location"
                   /\ new = Append(old, ret'.message)
                \/ /\ ret'.op = "get_agent_context_data"
                   /\ ret'.agent = a
                   /\ new = <<>>
        /\ ret'.op = "get_agent_context_data" =>
             /\ ret'.data.pending_events = Queue(pending_events, ret'.agent)
             /\ ret'.agent \notin DOMAIN pending_events'
        /\ (ret'.op = "get_agent_context_data"
              /\ ret.op = "get_agent_context_data"
              /\ ret'.agent = ret.agent) =>
             ret'.data.pending_events = <<>>
      ]_vars

\* a locked agent's context build has returned two events in broadcast order
C17_Witness ==
    /\ ret.op = "get_agent_context_data"
    /\ ret.agent = "Ann"
    /\ "Ann" \in DOMAIN agent_locks
    /\ ret.data.pending_events = <<Msg("the lights flicker"), Msg("a bell rings")>>
    /\ "Ann" \notin DOMAIN pending_events

\* hidden values an object could hold instead of its own
HiddenValues ==
    { [mechanics |-> "", internal_state |-> EmptyDict],
      [mechanics |-> "Opens with the brass key.",
       internal_state |-> [power |-> "on"]],
      [mechanics |-> "Can be toggled.",
       internal_state |-> [locked |-> "yes", power |-> "off"]] }

\* the world with the hidden fields of every object replaced as h says
WithHidden(w, h) ==
    [w EXCEPT !.objects =
        [o \in DOMAIN w.objects |->
            [w.objects[o] EXCEPT !.mechanics = h[o].mechanics,
                                 !.internal_state = h[o].internal_state]]]

\* C15: the snapshot returned by get_agent_context_data does not depend on
\* any object's mechanics or internal_state: every world that differs from
\* the current one only in those fields yields the same snapshot (and the
\* same queues) for every agent and every location.
C15_HiddenFieldsStayHidden ==
    \A a \in Agents, l \in Locs \cup {GhostLoc} :
        \A h \in [DOMAIN objects -> HiddenValues] :
            get_agent_context_data(WithHidden(World, h), pending_events,
                                   sim_time, a, l)
              = get_agent_context_data(World, pending_events, sim_time, a, l)

\* a context build has listed an object that carries hidden values
C15_Witness ==
    /\ ret.op = "get_agent_context_data"
    /\ ret.data.objects # <<>>
    /\ \E o \in DOMAIN objects :
          /\ ret.data.objects[1].id = o
          /\ objects[o].mechanics # ""
          /\ objects[o].internal_state # EmptyDict

----------------------------------------------------------------------------
(* Claims about process_action and the tick loop.                          *)

\* C20: every call of process_action, for every action type and every
\* outcome (an interact resolved with duration 0 or with duration > 0
\* included), returns a record with a boolean success and a message.
C20_ResultShape ==
    [][ ret'.op = "process_action" =>
          /\ "success" \in DOMAIN ret'.result
          /\ ret'.result.success \in BOOLEAN
          /\ "message" \in DOMAIN ret'.result
      ]_vars

\* the agent holds a lock that has not expired
Unexpired(a) == a \in DOMAIN agent_locks /\ sim_time < agent_locks[a].until_time

\* C13: in the tick loop an agent whose lock check returns Active gets no
\* context snapshot (its queue is left alone), is asked for no decision and
\* has no process_action applied; while an agent's lock is unexpired the
\* agent does not move, no action or interaction of its own is applied and
\* its lock is not replaced; a lock is only ever given to an agent that
\* holds none, so each agent holds at most one.
C13_LockedAgentsDoNotAct ==
    [][ tk.pc # "idle" =>
          /\ (tk.pc = "check" /\ tk.i <= Len(AgentOrder)
                /\ Unexpired(AgentOrder[tk.i])) =>
                /\ tk' = [tk EXCEPT !.i = @ + 1]
                /\ pending_events' = pending_events
                /\ ret'.op = "tick_check" /\ ret'.result.kind = "active"
          /\ (tk.pc = "check" /\ tk'.pc = "act") =>
                \A a \in DOMAIN tk'.decisions : ~Unexpired(a)
          /\ ((ret'.op = "process_action" \/ (rs.pc = "idle" /\ rs'.pc # "idle"))
                /\ tk.pc = "act") =>
                AgentOrder[tk.i] \notin DOMAIN agent_locks
          /\ \A a \in Agents :
                Unexpired(a) =>
                  /\ agent_locations'[a] = agent_locations[a]
                  /\ a \in DOMAIN agent_locks'
                  /\ agent_locks'[a] = agent_locks[a]
                  /\ ret'.op = "process_action" => ret'.agent # a
                  /\ rs'.pc # "idle" => rs'.agent # a
          /\ \A a \in DOMAIN agent_locks' :
                \/ a \in DOMAIN agent_locks /\ agent_locks'[a] = agent_locks[a]
                \/ a \notin DOMAIN agent_locks
      ]_vars

\* a tick in which Ann, busy since an earlier tick, was passed over while
\* Bob's decision was applied
C13_Witness ==
    /\ tk.pc = "act"
    /\ tk.i = Len(AgentOrder) + 1
    /\ Unexpired("Ann")
    /\ agent_locks["Ann"].until_time < sim_time + 20
    /\ "Ann" \notin DOMAIN tk.contexts
    /\ "Ann" \notin DOMAIN tk.decisions
    /\ ret.op = "process_action"
    /\ ret.agent = "Bob"

----------------------------------------------------------------------------
(* Claims about the turns of a resolution.                                 *)

\* the step processes a well-formed interaction_result call: either the
\* resolution returns finalized, or the finalization raised
ResultProcessed ==
    /\ rs.pc \in {"first", "dispatch"}
    /\ \/ ret'.op = "resolve_interaction" /\ ret'.how = "finalized"
       \/ ret'.op = "process_action" /\ ret'.inner.how = "finalized"
       \/ /\ ret'.op = "tool"
          /\ ret'.name = "interaction_result"
          /\ "decision" \in DOMAIN ret'

\* C21: when a turn contains an interaction_result call, the staging tools
\* before it are dispatched in array order (each appended behind the
\* effects staged so far), interaction_result ends the loop, and nothing
\* after it is dispatched or staged and no further collaborator call is
\* made.
C21_FinalizationEndsTurn ==
    [][ /\ ResultProcessed => rs'.pc = "idle"
        /\ (rs.pc \in {"first", "dispatch"} /\ rs'.pc = "dispatch") =>
              \/ rs'.pending_effects = rs.pending_effects
              \/ /\ Len(rs'.pending_effects) = Len(rs.pending_effects) + 1
                 /\ SubSeq(rs'.pending_effects, 1, Len(rs.pending_effects))
                        = rs.pending_effects
      ]_vars

\* C22: from the start of resolve_interaction until an interaction_result
\* is processed no object, location, agent position, event queue or lock
\* changes: query_entity and the four staging tools only read the world
\* and append to the resolution's pending-effect list.
C22_NoMutationBeforeFinalization ==
    [][ ((rs.pc # "idle" \/ rs'.pc # "idle") /\ ~ResultProcessed) =>
          /\ UNCHANGED <<locations, objects, agent_locations, agent_locks,
                         pending_events, sim_time>>
          /\ (rs.pc # "idle" /\ rs'.pc # "idle") =>
                /\ Len(rs'.pending_effects) >= Len(rs.pending_effects)
                /\ SubSeq(rs'.pending_effects, 1, Len(rs.pending_effects))
                       = rs.pending_effects
      ]_vars

\* two effects are staged, a turn has ended, and the world is as it was
C22_Witness ==
    /\ rs.pc = "await"
    /\ rs.turn > 0
    /\ Len(rs.pending_effects) = 2
    /\ rs.pending_effects[1].type = "UpdateObject"
    /\ rs.pending_effects[2].type = "CreateObject"
    /\ objects["lamp"].state = "normal"
    /\ "cup" \notin DOMAIN objects

----------------------------------------------------------------------------
(* Claims about expiry and the tick loop.                                  *)

\* step 1 of the loop for two agents: check_agent_lock(first), then
\* check_agent_lock(second)
CheckBoth(first, second) ==
    LET c == check_agent_lock(World, agent_locks, sim_time, first)
    IN check_agent_lock(c.w, c.locks, sim_time, second)

Expired(a) == a \in DOMAIN agent_locks /\ sim_time >= agent_locks[a].until_time

\* C23: when the locks of two different agents expire on the same tick, the
\* world after both check_agent_lock calls is the same whichever agent is
\* checked first.
C23_ExpiryOrderIndependence ==
    (Expired("Ann") /\ Expired("Bob")) =>
        CheckBoth("Ann", "Bob").w = CheckBoth("Bob", "Ann").w

\* C24: no world mutation (create, destroy, update, transfer, move) is
\* applied between the first and the last context snapshot built in a tick:
\* a step of the loop that adds a snapshot to those already built leaves
\* objects, locations and agent positions as they were.
C24_StableSnapshots ==
    [][ (/\ tk.pc = "check"
         /\ tk'.pc = "check"
         /\ DOMAIN tk.contexts # {}
         /\ DOMAIN tk'.contexts # DOMAIN tk.contexts) =>
            UNCHANGED <<locations, objects, agent_locations>>
      ]_vars

\* q continues p: p is the beginning of q
Extends(q, p) == Len(q) >= Len(p) /\ SubSeq(q, 1, Len(p)) = p

\* C25: an event broadcast by an action applied in tick k is in no snapshot
\* used for a decision of tick k, and is first delivered by the recipient's
\* next context build, in a later tick.  While the decisions of a tick are
\* applied the snapshots and decisions of the tick stay as they are and the
\* queues only grow; a queue is emptied only by its agent's context build
\* in step 1 of a tick, into that agent's snapshot, and step 1 of a tick
\* never follows an applied decision of the same tick.
C25_NextTickVisibility ==
    /\ [](tk.pc = "check" => tk.decisions = EmptyDict)
    /\ [][ /\ tk.pc = "act" =>
                /\ tk'.pc \in {"act", "idle"}
                /\ tk'.pc = "act" => /\ tk'.contexts = tk.contexts
                                     /\ tk'.decisions = tk.decisions
                /\ \A a \in Agents :
                      Extends(Queue(pending_events', a), Queue(pending_events, a))
            /\ \A a \in Agents :
                  ~Extends(Queue(pending_events', a), Queue(pending_events, a)) =>
                      /\ tk.pc = "check" /\ tk'.pc = "check"
                      /\ AgentOrder[tk.i] = a
                      /\ a \notin DOMAIN pending_events'
                      /\ tk'.contexts[a].pending_events = Queue(pending_events, a)
          ]_vars

\* Bob's snapshot of the second tick holds what Ann said in the first
C25_Witness ==
    /\ tk.pc = "act"
    /\ sim_time = TICK_DURATION_MINUTES
    /\ "Bob" \in DOMAIN tk.contexts
    /\ tk.contexts["Bob"].pending_events = << <<"You heard", "Ann", "hello">> >>

\* C26: whenever an interact is finalized by the resolver through
\* interaction_result, process_action queues the narration
\* "<actor>: <result message>" for every other agent present at the
\* actor's location, and never for the actor.
C26_WitnessNarration ==
    [][ (/\ ret'.op = "process_action"
         /\ "inner" \in DOMAIN ret'
         /\ ret'.inner.how = "finalized") =>
            \A b \in Agents :
               Queue(pending_events', b) =
                   IF b # ret'.agent /\ Present(pa.location, b)
                   THEN Append(Queue(pending_events, b),
                               <<ret'.agent, ret'.result.message>>)
                   ELSE Queue(pending_events, b)
      ]_vars

\* C27: for every lock created, the loop's lock check observes Expired for
\* it exactly once and passes its completion message to the agent, also
\* when the dashboard's status queries call check_agent_lock between
\* ticks: a lock leaves the table only in the step of the loop that checks
\* its agent, and that step hands over the lock's completion message.
C27_CompletionMessageOnce ==
    [][ \A a \in DOMAIN agent_locks :
          a \notin DOMAIN agent_locks' =>
              /\ ret'.op = "tick_check"
              /\ ret'.agent = a
              /\ ret'.result.kind = "expired"
              /\ ret'.result.message = agent_locks[a].completion_message
      ]_vars

\* C28: when the collaborator answers a turn with text and no tool
\* invocation, the resolver appends the reminder to call interaction_result
\* and goes on with the next turn, the turn counting against the bound: it
\* does not end the resolution (only the bound does, after the last turn)
\* and changes neither the pending-effect list nor the world.
C28_FreeTextTurn ==
    [][ rs.pc = "await" =>
          /\ rs'.pc = "await" =>
                /\ rs'.turn = rs.turn + 1
                /\ rs'.turn < MAX_REACT_TURNS
                /\ rs'.pending_effects = rs.pending_effects
                /\ ret'.op = "turn_done" /\ ret'.appended = Reminder
          /\ rs'.pc = "idle" =>
                \/ ret'.how \in {"silent", "empty"}
                \/ ret'.how = "timeout" /\ rs.turn + 1 = MAX_REACT_TURNS
          /\ UNCHANGED <<locations, objects, agent_locations, agent_locks,
                         pending_events, sim_time>>
      ]_vars

\* a text turn has followed a turn that staged an effect
C28_Witness ==
    /\ rs.pc = "await"
    /\ rs.turn = 2
    /\ ret.op = "turn_done"
    /\ ret.appended = Reminder
    /\ Len(rs.pending_effects) = 1

\* C29: process_action for an interact whose target does not exist when
\* the action is applied, or is neither at the actor's current location
\* nor held by the actor, returns success = false without invoking the
\* resolver and without changing the world.  Every interact that is
\* answered without the resolver is such a refusal, and the resolver is
\* only entered for an existing object that is at the actor's location or
\* in the actor's hands.
C29_InteractRevalidated ==
    [][ /\ (/\ rs.pc = "idle" /\ pa.pc = "idle"
             /\ ret'.op = "process_action"
             /\ ret'.decision.action_type = "interact") =>
                /\ ret'.result.success = FALSE
                /\ rs'.pc = "idle"
                /\ UNCHANGED <<locations, objects, agent_locations,
                               agent_locks, pending_events>>
        /\ (pa.pc = "idle" /\ pa'.pc = "interact") =>
                LET target == pa'.decision.target IN
                /\ target \in DOMAIN objects
                /\ objects[target].location_id
                      \in {get_agent_location(World, pa'.agent), pa'.agent}
      ]_vars

\* Bob's interact with the lamp is refused in the tick in which Ann, acting
\* before him, took the lamp
C29_Witness ==
    /\ tk.pc = "act"
    /\ sim_time = 0
    /\ ret.op = "process_action"
    /\ ret.agent = "Bob"
    /\ ret.decision.action_type = "interact"
    /\ ret.decision.target = "lamp"
    /\ "inner" \notin DOMAIN ret
    /\ ret.result.success = FALSE
    /\ "lamp" \in DOMAIN objects
    /\ objects["lamp"].location_id = "Ann"

\* C30: in the tick loop with the resolver set_agent_lock is never called
\* for an agent that holds a lock, so no lock is overwritten, and every
\* effect list registered in a lock is replayed at that lock's expiry: the
\* loop's check of an agent whose lock has expired runs the whole list,
\* removes the lock and reports Expired.
C30_NoDoubleLock ==
    [][ tk.pc # "idle" =>
          /\ \A a \in DOMAIN agent_locks' :
                \/ a \notin DOMAIN agent_locks
                \/ agent_locks'[a] = agent_locks[a]
          /\ (tk.pc = "check" /\ tk.i <= Len(AgentOrder)
                /\ Expired(AgentOrder[tk.i])) =>
                LET a == AgentOrder[tk.i]
                    r == ReplayPending(World, agent_locks[a].pending_effects)
                IN /\ r.n = Len(agent_locks[a].pending_effects)
                   /\ World' = r.w
                   /\ a \notin DOMAIN agent_locks'
                   /\ ret'.op = "tick_check"
                   /\ ret'.result.kind = "expired"
      ]_vars

\* C31: while the loop keeps running, a lock created with duration D in
\* tick k is observed Expired and deleted at the lock check of tick
\* k + ceil(D / TICK_DURATION_MINUTES), the agent skips exactly the ticks in
\* between, and no agent stays locked forever.  A lock set in the loop ends
\* D minutes after the time of its tick; the loop's check of an agent that
\* holds a lock skips the agent while the time is before that end, and at
\* the first tick that is not (less than one tick past the end) deletes
\* the lock and reports Expired.
C31_LocksAreConsumed ==
    [][ tk.pc # "idle" =>
          /\ \A a \in DOMAIN agent_locks' :
                (a \notin DOMAIN agent_locks \/ agent_locks'[a] # agent_locks[a]) =>
                    /\ ret'.op = "process_action"
                    /\ ret'.agent = a
                    /\ agent_locks'[a].until_time
                          = sim_time + ret'.inner.decision.duration
          /\ (tk.pc = "check" /\ tk.i <= Len(AgentOrder)
                /\ AgentOrder[tk.i] \in DOMAIN agent_locks) =>
                LET a == AgentOrder[tk.i] IN
                IF sim_time < agent_locks[a].until_time
                THEN /\ a \in DOMAIN agent_locks'
                     /\ agent_locks'[a] = agent_locks[a]
                     /\ ret'.op = "tick_check" /\ ret'.result.kind = "active"
                     /\ tk'.active = tk.active
                ELSE /\ sim_time < agent_locks[a].until_time
                                      + TICK_DURATION_MINUTES
                     /\ a \notin DOMAIN agent_locks'
                     /\ ret'.op = "tick_check" /\ ret'.result.kind = "expired"
                     /\ tk'.active = Append(tk.active, a)
      ]_vars

\* C32: after any sequence of place_agent and move_agent calls, successful
\* or failed, every placed agent is in the presence list of exactly one
\* location, exactly once, and that location is its recorded position.
C32_PresenceConsistency ==
    \A a \in DOMAIN agent_locations :
        \A l \in Locs :
            Count(Presence[l], a) = IF agent_locations[a] = l THEN 1 ELSE 0

\* C33: from a loaded scenario and after any sequence of create / destroy /
\* transfer calls, an object id is in location L's objects list if and only
\* if the object exists and its location_id is L.
C33_OwnerAndListsAgree ==
    \A o \in ObjIds, l \in Locs :
        InList(locations[l].objects, o)
            <=> (o \in DOMAIN objects /\ objects[o].location_id = l)

C35_ConnectionsMatchMovement ==
    [][(ret'.op = "move_agent" /\ ret'.agent \in DOMAIN agent_locations) =>
          (ret'.ok <=> ret'.to \in get_connected_locations(
                                      World, agent_locations[ret'.agent]))
      ]_vars

\* C36: when the reasoning service returns nothing or an unparsable answer,
\* decide returns a wait decision; applying it changes no location, object,
\* lock or event queue, and the tick continues with the other agents.  The
\* decision decide makes of such an answer is a wait with a fallback
\* reasoning, and the loop's step for an agent holding such a decision
\* leaves the world, the locks and the queues as they are, reports the
\* wait as processed and moves on to the next agent.
C36_DecisionFallback ==
    /\ \A r \in Responses :
          (r.kind = "none" \/ ~model_validate_json(r.content).ok) =>
              /\ decide(r).action_type = "wait"
              /\ decide(r).reasoning \in {"Decision failed", "Validation Error"}
    /\ [][(/\ tk.pc = "act" /\ tk.i <= Len(AgentOrder)
           /\ AgentOrder[tk.i] \in DOMAIN tk.decisions
           /\ tk.decisions[AgentOrder[tk.i]].reasoning
                  \in {"Decision failed", "Validation Error"}) =>
             /\ World' = World
             /\ agent_locks' = agent_locks
             /\ pending_events' = pending_events
             /\ ret'.op = "process_action"
             /\ ret'.result.success
             /\ tk'.pc = "act" /\ tk'.i = tk.i + 1
             /\ tk'.decisions = tk.decisions
        ]_vars

\* C37: SimAgent.decide returns a decision after a bounded number of
\* reasoning-service calls, whatever the service answers, a service that
\* answers every call with an update_plan tool invocation included: a
\* decide that is still running has made fewer service calls than the
\* MaxCalls - 1 the exploration can follow it for.
C37_DecideTerminates ==
    tk.pc = "decide" => tk.llm_calls < MaxCalls - 1

====
